---- MODULE Spec2Model ----
(***************************************************************************)
(* Corporate Network Mapper (app.py): a model of one "Map Network" run.    *)
(* The registry (Companies House) is the environment: every fetch may      *)
(* answer with any list of records or fail.  map_corporate_network is      *)
(* modelled statement group by statement group, followed by the button     *)
(* handler that stores the result and by the two consumers of the result   *)
(* (the results tab and the Excel export).                                 *)
(***************************************************************************)
EXTENDS Integers, Sequences, FiniteSets, TLC

VARIABLES
    pc,                  \* position of the script / of map_corporate_network
    company_number,      \* the seed company's number (argument of the run)
    officers,            \* what get_company_officers returned
    i,                   \* loop index over officers (1-based)
    officer_id,          \* result of extract_officer_id for officers[i]
    officer_info,        \* the entry being built for officers[i]
    appointments,        \* what get_officer_appointments returned for officers[i]
    j,                   \* loop index over appointments (1-based)
    officer_data,        \* the officer list being built
    connected_companies, \* the connections map, as the ordered sequence of its items
    http_outcome,        \* how the latest registry request ended
    fetch_log,           \* history: every appointments request issued and what it returned
    progress_log,        \* history: every progress_callback invocation
    result,              \* what map_corporate_network returned
    session_state,       \* st.session_state['mapping_results']
    warnings,            \* st.warning messages shown by the handler
    sorted_conn,         \* results tab: the ranking
    sorted_companies,    \* create_excel: the ranking
    api_key,             \* whether st.secrets holds COMPANIES_HOUSE_API_KEY
    \* categorize_entities (subsidiary_mapper.py)
    c_pc,                \* position of the classifier's caller
    parent_name,         \* argument parent_name
    entities,            \* argument entities
    c_order,             \* the order in which the pass under way takes the entities
    c_idx,               \* loop index of "for entity in entities"
    categories,          \* the categories dict of the first call
    categories_again,    \* the categories dict of the call on the reordered list
    \* one Registry Client operation called on its own (app.py)
    k_pc,                \* position inside the operation
    k_op,                \* which operation was invoked
    requests_sent,       \* HTTP requests issued by the invocation under way
    http_response,       \* the answer to the request: outcome and body
    k_returned,          \* the list the operation returned
    k_raised,            \* whether an exception left the operation
    ui_messages,         \* st.error / st.warning messages of the invocation
    calls_made,          \* operations invoked so far
    \* two invocations of map_corporate_network and the objects they build
    heap,                \* the list and dict objects, by reference
    r_pc,                \* position of each invocation
    r_seed,              \* argument company_number of each invocation
    r_officer_data,      \* reference held by the local officer_data
    r_connected,         \* reference held by the local connected_companies
    r_steps,             \* history: the appointments each invocation processed
    r_result,            \* the references each invocation returned
    r_snapshot,          \* history: the returned structures as they were at the return
    \* the session of app.py over several button presses
    s_search_results,    \* st.session_state['search_results'] (None: key absent)
    s_mapping_results,   \* st.session_state['mapping_results'] (None: key absent)
    s_last,              \* history: the handler that ran last and what its run returned
    s_shown,             \* the source company the results section shows
    s_warnings,          \* st.warning messages of the latest script run
    s_clicks,            \* button presses so far
    \* the session of subsidiary_mapper.py and its two callbacks
    m_pc,                \* "shown": the page is rendered; "rerun": a script run is due
    m_search_results,    \* st.session_state.search_results
    m_selected_company,  \* st.session_state.selected_company
    m_mapping_results,   \* st.session_state.mapping_results
    m_search_query,      \* st.session_state.search_query
    m_selector,          \* state of the "company_selector" selectbox (0: not set)
    m_last,              \* history: the latest callback and what it was given
    m_presses,           \* interactions so far
    \* the Map handler of subsidiary_mapper_enhanced.py
    e_pc,                \* position in the handler / in find_related_companies_by_officers
    e_company,           \* the search result whose Map button was pressed
    e_officers,          \* what get_ch_officers returned
    e_k,                 \* loop index over key_officers[:3] (1-based)
    e_related,           \* the list find_related_companies_by_officers builds
    e_items,             \* history: every item the officer searches returned
    e_structure          \* unique_structure (None: not built)

run_vars == <<pc, company_number, officers, i, officer_id, officer_info, appointments, j,
              officer_data, connected_companies, http_outcome, fetch_log, progress_log,
              result, session_state, warnings, sorted_conn, sorted_companies>>

classify_vars == <<c_pc, parent_name, entities, c_order, c_idx, categories,
                   categories_again>>

client_vars == <<k_pc, k_op, requests_sent, http_response, k_returned, k_raised,
                 ui_messages, calls_made>>

invocation_vars == <<heap, r_pc, r_seed, r_officer_data, r_connected, r_steps, r_result,
                     r_snapshot>>

\* the variables of the models that stand beside the script of app.py
session_vars == <<s_search_results, s_mapping_results, s_last, s_shown, s_warnings, s_clicks>>

mapper_vars == <<m_pc, m_search_results, m_selected_company, m_mapping_results,
                 m_search_query, m_selector, m_last, m_presses>>

enhanced_vars == <<e_pc, e_company, e_officers, e_k, e_related, e_items, e_structure>>

aside_vars == <<invocation_vars, session_vars, mapper_vars, enhanced_vars>>

\* what a mapping run leaves alone
outside_run == <<api_key, classify_vars, client_vars, aside_vars>>

vars == <<run_vars, api_key, classify_vars, client_vars, aside_vars>>

-----------------------------------------------------------------------------
(* Bounds of the model.                                                    *)

\* most records (officers and appointments together) the registry returns
\* over one mapping run
MaxRecords == 4

-----------------------------------------------------------------------------
(* Python values.                                                          *)

\* None, and a value that is not None
None == [none |-> TRUE]
Some(v) == [none |-> FALSE, val |-> v]

\* dict.get(key, default)
Get(d, k, default) == IF k \in DOMAIN d THEN d[k] ELSE default

\* the empty dict
EmptyDict == <<>>

\* a string as the sequence of its characters
Officers_ == <<"o", "f", "f", "i", "c", "e", "r", "s">>
Appointments_ == <<"a", "p", "p", "o", "i", "n", "t", "m", "e", "n", "t", "s">>
Company_ == <<"c", "o", "m", "p", "a", "n", "y">>

\* str.strip("/"): drop every leading and every trailing "/"
RECURSIVE LStrip(_)
LStrip(s) == IF s # <<>> /\ Head(s) = "/" THEN LStrip(Tail(s)) ELSE s

RECURSIVE RStrip(_)
RStrip(s) ==
    IF s # <<>> /\ s[Len(s)] = "/" THEN RStrip(SubSeq(s, 1, Len(s) - 1)) ELSE s

Strip(s) == RStrip(LStrip(s))

\* str.split("/"): the pieces between separators; "" splits to [""]
RECURSIVE SplitAcc(_, _, _)
SplitAcc(s, cur, acc) ==
    IF s = <<>> THEN Append(acc, cur)
    ELSE IF Head(s) = "/" THEN SplitAcc(Tail(s), <<>>, Append(acc, cur))
    ELSE SplitAcc(Tail(s), Append(cur, Head(s)), acc)

Split(s) == SplitAcc(s, <<>>, <<>>)

-----------------------------------------------------------------------------
(* The registry's records (inputs of the run).                             *)

SeedNumber == "00000001"

LinkAB == <<"/">> \o Officers_ \o <<"/", "a", "b", "/">> \o Appointments_
LinkCD == <<"/">> \o Officers_ \o <<"/", "c", "d", "/">> \o Appointments_
LinkNoId == <<"/">> \o Officers_ \o <<"/", "/">> \o Appointments_
LinkCompany == <<"/">> \o Company_ \o <<"/", "a", "b">>

OfficerLinks(link) == [officer |-> [appointments |-> link]]

\* officer records the officers endpoint may return
OfficerRecords ==
    { [name |-> "Jane Doe", officer_role |-> "director",
       appointed_on |-> "2019-01-01", links |-> OfficerLinks(LinkAB)],
      [name |-> "John Roe", officer_role |-> "secretary",
       appointed_on |-> "2020-02-02", resigned_on |-> "2021-06-30",
       links |-> OfficerLinks(LinkCD)],
      [name |-> "Jane Doe", officer_role |-> "director"],
      [name |-> "Mary Major", officer_role |-> "director",
       appointed_on |-> "2018-03-03", links |-> OfficerLinks(LinkNoId)],
      [officer_role |-> "llp-member", links |-> OfficerLinks(LinkCompany)] }

\* appointment records the appointments endpoint may return
AppointmentRecords ==
    { [appointed_to |-> [company_number |-> SeedNumber, company_name |-> "Seed plc",
                         company_status |-> "active"],
       officer_role |-> "director"],
      [appointed_to |-> [company_number |-> "0000000A", company_name |-> "Alpha Ltd",
                         company_status |-> "active"],
       officer_role |-> "director"],
      [appointed_to |-> [company_number |-> "0000000A", company_name |-> "Alpha Limited",
                         company_status |-> "dissolved"],
       officer_role |-> "secretary"],
      [appointed_to |-> [company_number |-> "0000000B", company_name |-> "Beta Ltd",
                         company_status |-> "active"]],
      [officer_role |-> "director"] }

\* sequences over S of length at most n
SeqsUpTo(S, n) == UNION { [1..k -> S] : k \in 0..n }

\* outcomes of one HTTP request: a 200 answer, another status, or an exception
\* (timeout, connection error)
Outcomes == {"200", "429", "exception"}

-----------------------------------------------------------------------------
(* Helpers of map_corporate_network.                                       *)

\* get_company_officers / get_officer_appointments: the items of a 200
\* answer, [] for any other status and for an exception
ResponseItems(outcome, items) == IF outcome = "200" THEN items ELSE <<>>

\* variant: the second path segment is taken whatever the first one is
extract_officer_id_AnyPrefix(officer_link) ==
    IF officer_link # <<>>
    THEN LET parts == Split(Strip(officer_link))
         IN  IF Len(parts) >= 2 THEN Some(parts[2]) ELSE None
    ELSE None

\* extract_officer_id
extract_officer_id(officer_link) ==
    IF officer_link # <<>>
    THEN LET parts == Split(Strip(officer_link))
         IN  IF Len(parts) >= 2 /\ parts[1] = Officers_
             THEN Some(parts[2])
             ELSE None
    ELSE None

\* truth value of an optional string or list: None and the empty value are false
Truthy(x) == ~x.none /\ x.val # <<>>

\* the appointments link of an officer record
OfficerLink(officer) ==
    Get(Get(Get(officer, "links", EmptyDict), "officer", EmptyDict), "appointments", <<>>)

\* the officer_info dict built for an officer record
OfficerInfo(officer) ==
    [name |-> Get(officer, "name", "Unknown"),
     role |-> Get(officer, "officer_role", "Unknown"),
     appointed |-> Get(officer, "appointed_on", "N/A"),
     resigned |-> IF "resigned_on" \in DOMAIN officer
                  THEN Some(officer.resigned_on) ELSE None,
     officer_id |-> extract_officer_id(OfficerLink(officer)),
     other_companies |-> <<>>]

\* fields read from an appointment record
ApptCompanyNumber(appt) == Get(Get(appt, "appointed_to", EmptyDict), "company_number", "")
ApptCompanyName(appt) == Get(Get(appt, "appointed_to", EmptyDict), "company_name", "Unknown")
ApptRole(appt) == Get(appt, "officer_role", "Unknown")
ApptStatus(appt) == Get(Get(appt, "appointed_to", EmptyDict), "company_status", "unknown")

\* variant: the source company is not skipped
IsSourceCompanyNever(appt_company_number, seed) == FALSE

\* "Skip the source company"
IsSourceCompany(appt_company_number, seed) == appt_company_number = seed

\* the entry appended to officer_info["other_companies"]
OtherCompany(appt) ==
    [company_number |-> ApptCompanyNumber(appt),
     company_name |-> ApptCompanyName(appt),
     role |-> ApptRole(appt),
     status |-> ApptStatus(appt)]

\* position of a key in the connections map, 0 when absent
KeyIndex(conn, key) ==
    IF \E k \in 1..Len(conn) : conn[k].key = key
    THEN CHOOSE k \in 1..Len(conn) : conn[k].key = key
    ELSE 0

\* connected_companies[key]: the defaultdict inserts the default entry at the
\* end when the key is new
WithDefault(conn, key) ==
    IF KeyIndex(conn, key) = 0
    THEN Append(conn, [key |-> key, company |-> None, shared_officers |-> <<>>])
    ELSE conn

\* variant: the snapshot is written only when the entry has none yet
SetCompanyOnce(conn, key, company) ==
    LET c == WithDefault(conn, key)
    IN  IF c[KeyIndex(c, key)].company.none
        THEN [c EXCEPT ![KeyIndex(c, key)].company = Some(company)]
        ELSE c

\* connected_companies[key]["company"] = {...}
SetCompany(conn, key, company) ==
    LET c == WithDefault(conn, key)
    IN  [c EXCEPT ![KeyIndex(c, key)].company = Some(company)]

\* variant: an officer already listed for the company is not listed again
AppendSharedOfficerDedup(conn, key, shared) ==
    LET c == WithDefault(conn, key)
    IN  IF \E m \in 1..Len(c[KeyIndex(c, key)].shared_officers) :
               c[KeyIndex(c, key)].shared_officers[m].name = shared.name
        THEN c
        ELSE [c EXCEPT ![KeyIndex(c, key)].shared_officers = Append(@, shared)]

\* variant: the list is replaced by its newest element
AppendSharedOfficerReplace(conn, key, shared) ==
    LET c == WithDefault(conn, key)
    IN  [c EXCEPT ![KeyIndex(c, key)].shared_officers = <<shared>>]

\* connected_companies[key]["shared_officers"].append({...})
AppendSharedOfficer(conn, key, shared) ==
    LET c == WithDefault(conn, key)
    IN  [c EXCEPT ![KeyIndex(c, key)].shared_officers = Append(@, shared)]

\* variant: the map keeps only the company of the newest appointment
TrackConnectedOnlyLatest(conn, appt, info) ==
    LET number == ApptCompanyNumber(appt)
        kept == SelectSeq(conn, LAMBDA e : e.key = number)
    IN  IF number # ""
        THEN AppendSharedOfficer(
                 SetCompany(kept, number,
                            [number |-> number, name |-> ApptCompanyName(appt),
                             status |-> ApptStatus(appt)]),
                 number,
                 [name |-> info.name, role_at_source |-> info.role,
                  role_at_connected |-> ApptRole(appt)])
        ELSE conn

\* variant: an empty company number gets an entry as well
TrackConnectedNoGuard(conn, appt, info) ==
    LET number == ApptCompanyNumber(appt)
    IN  AppendSharedOfficer(
            SetCompany(conn, number,
                       [number |-> number, name |-> ApptCompanyName(appt),
                        status |-> ApptStatus(appt)]),
            number,
            [name |-> info.name, role_at_source |-> info.role,
             role_at_connected |-> ApptRole(appt)])

\* "Track connected companies"
TrackConnected(conn, appt, info) ==
    LET number == ApptCompanyNumber(appt)
    IN  IF number # ""
        THEN AppendSharedOfficer(
                 SetCompany(conn, number,
                            [number |-> number, name |-> ApptCompanyName(appt),
                             status |-> ApptStatus(appt)]),
                 number,
                 [name |-> info.name, role_at_source |-> info.role,
                  role_at_connected |-> ApptRole(appt)])
        ELSE conn

\* variant: no officers gives an empty network
NoDataResultEmptyNetwork == [officers |-> Some(<<>>), connected |-> Some(<<>>)]

\* "return None, None"
NoDataResult == [officers |-> None, connected |-> None]

\* appointment records fetched so far in the run
RECURSIVE FetchedCount(_)
FetchedCount(log) ==
    IF log = <<>> THEN 0 ELSE Len(Head(log).items) + FetchedCount(Tail(log))

\* records the registry may still return in this run
RecordsLeft == MaxRecords - Len(officers) - FetchedCount(fetch_log)

-----------------------------------------------------------------------------
\* the locals of map_corporate_network and the session before a run
InitRun ==
    /\ company_number = ""
    /\ officers = <<>>
    /\ i = 0
    /\ officer_id = None
    /\ officer_info = OfficerInfo(EmptyDict)
    /\ appointments = <<>>
    /\ j = 0
    /\ officer_data = <<>>
    /\ connected_companies = <<>>
    /\ http_outcome = "none"
    /\ fetch_log = <<>>
    /\ progress_log = <<>>
    /\ result = [officers |-> None, connected |-> None]
    /\ session_state = [mapping_results |-> None]
    /\ warnings = <<>>
    /\ sorted_conn = <<>>
    /\ sorted_companies = <<>>

\* the classifier is not in use
ClassifierIdle ==
    /\ c_pc = "unused"
    /\ parent_name = <<>>
    /\ entities = <<>>
    /\ c_order = <<>>
    /\ c_idx = 0
    /\ categories = <<>>
    /\ categories_again = <<>>

\* no request has been answered
NoResponse == [outcome |-> "none", items |-> <<>>, more_pages |-> FALSE]

\* no Registry Client operation is called on its own
ClientIdle ==
    /\ k_pc = "unused"
    /\ k_op = "none"
    /\ requests_sent = 0
    /\ http_response = NoResponse
    /\ k_returned = None
    /\ k_raised = FALSE
    /\ ui_messages = <<>>
    /\ calls_made = 0

\* the two invocations that share a process
Runs == {"first", "second"}

\* no invocation of map_corporate_network beside the script
InvocationsIdle ==
    /\ heap = <<>>
    /\ r_pc = [r \in Runs |-> "unused"]
    /\ r_seed = [r \in Runs |-> ""]
    /\ r_officer_data = [r \in Runs |-> 0]
    /\ r_connected = [r \in Runs |-> 0]
    /\ r_steps = [r \in Runs |-> <<>>]
    /\ r_result = [r \in Runs |-> None]
    /\ r_snapshot = [r \in Runs |-> None]

\* no handler has run yet
NoHandler == [handler |-> "none", seed |-> "", result |-> NoDataResult]

\* the session of several button presses is not followed
SessionIdle ==
    /\ s_search_results = None
    /\ s_mapping_results = None
    /\ s_last = NoHandler
    /\ s_shown = None
    /\ s_warnings = <<>>
    /\ s_clicks = 0

\* no callback has run yet
NoCallback ==
    [callback |-> "none", query |-> "", company |-> None, answers |-> <<>>,
     found |-> <<>>, searches |-> 0]

\* subsidiary_mapper.py is not running
MapperIdle ==
    /\ m_pc = "unused"
    /\ m_search_results = None
    /\ m_selected_company = None
    /\ m_mapping_results = None
    /\ m_search_query = ""
    /\ m_selector = 0
    /\ m_last = NoCallback
    /\ m_presses = 0

\* subsidiary_mapper_enhanced.py is not running
EnhancedIdle ==
    /\ e_pc = "unused"
    /\ e_company = EmptyDict
    /\ e_officers = <<>>
    /\ e_k = 0
    /\ e_related = <<>>
    /\ e_items = <<>>
    /\ e_structure = None

\* nothing beside the script is in use
AsideIdle ==
    /\ InvocationsIdle
    /\ SessionIdle
    /\ MapperIdle
    /\ EnhancedIdle

\* the script has passed the API key check and shows the Map Network button
Init ==
    /\ pc = "idle"
    /\ InitRun
    /\ api_key = TRUE
    /\ ClassifierIdle
    /\ ClientIdle
    /\ AsideIdle


-----------------------------------------------------------------------------
(* The ranking used by the results tab and by create_excel:                *)
(* sorted(connected.items(), key=lambda x: len(x[1]["shared_officers"]),   *)
(*        reverse=True).  Python's sort is stable, also with reverse=True. *)

SharedCount(item) == Len(item.shared_officers)

\* variant: an item goes in front of the items with the same count
RECURSIVE InsertByCountBeforeTies(_, _)
InsertByCountBeforeTies(sorted, item) ==
    IF sorted = <<>> THEN <<item>>
    ELSE IF SharedCount(Head(sorted)) > SharedCount(item)
         THEN <<Head(sorted)>> \o InsertByCountBeforeTies(Tail(sorted), item)
         ELSE <<item>> \o sorted

\* insert an item behind every item whose count is at least its own
RECURSIVE InsertByCount(_, _)
InsertByCount(sorted, item) ==
    IF sorted = <<>> THEN <<item>>
    ELSE IF SharedCount(Head(sorted)) >= SharedCount(item)
         THEN <<Head(sorted)>> \o InsertByCount(Tail(sorted), item)
         ELSE <<item>> \o sorted

RECURSIVE SortAcc(_, _)
SortAcc(items, acc) ==
    IF items = <<>> THEN acc
    ELSE SortAcc(Tail(items), InsertByCount(acc, Head(items)))

SortedByShared(items) == SortAcc(items, <<>>)

-----------------------------------------------------------------------------
(* The actions.                                                            *)

\* the user presses "Map Network": the handler calls map_corporate_network
MapNetworkClicked ==
    /\ pc = "idle"
    /\ company_number' = SeedNumber
    /\ pc' = "get_officers"
    /\ UNCHANGED http_outcome
    /\ UNCHANGED <<officers, i, officer_id, officer_info, appointments, j, officer_data,
                   connected_companies, fetch_log, progress_log, result, session_state,
                   warnings, sorted_conn, sorted_companies>>
    /\ UNCHANGED outside_run

\* Step 1: officers = get_company_officers(company_number); no officers
\* returns (None, None); otherwise the two structures are created
GetCompanyOfficers ==
    /\ pc = "get_officers"
    /\ \E outcome \in Outcomes, items \in SeqsUpTo(OfficerRecords, MaxRecords) :
         /\ outcome # "200" => items = <<>>
         /\ http_outcome' = outcome
         /\ officers' = ResponseItems(outcome, items)
         /\ IF officers' = <<>>
            THEN /\ result' = NoDataResult
                 /\ pc' = "returned"
                 /\ UNCHANGED <<i, officer_data, connected_companies>>
            ELSE /\ officer_data' = <<>>
                 /\ connected_companies' = <<>>
                 /\ i' = 1
                 /\ pc' = "progress"
                 /\ UNCHANGED result
    /\ UNCHANGED <<company_number, officer_id, officer_info, appointments, j, fetch_log,
                   progress_log, session_state, warnings, sorted_conn, sorted_companies>>
    /\ UNCHANGED outside_run

\* variant: the callback reports the number of officers already appended
ProgressCallbackProcessedCount ==
    /\ pc = "progress"
    /\ progress_log' = Append(progress_log, [done |-> Len(officer_data),
                                             total |-> Len(officers)])
    /\ pc' = "officer"
    /\ UNCHANGED http_outcome
    /\ UNCHANGED <<company_number, officers, i, officer_id, officer_info, appointments, j,
                   officer_data, connected_companies, fetch_log, result, session_state,
                   warnings, sorted_conn, sorted_companies>>
    /\ UNCHANGED outside_run

\* top of the loop body: progress_callback((i + 1) / total, ...)
ProgressCallback ==
    /\ pc = "progress"
    /\ progress_log' = Append(progress_log, [done |-> i, total |-> Len(officers)])
    /\ pc' = "officer"
    /\ UNCHANGED http_outcome
    /\ UNCHANGED <<company_number, officers, i, officer_id, officer_info, appointments, j,
                   officer_data, connected_companies, fetch_log, result, session_state,
                   warnings, sorted_conn, sorted_companies>>
    /\ UNCHANGED outside_run

\* read the officer record, extract the officer id, build officer_info
ReadOfficer ==
    /\ pc = "officer"
    /\ officer_info' = OfficerInfo(officers[i])
    /\ officer_id' = officer_info'.officer_id
    /\ pc' = IF Truthy(officer_id') THEN "get_appointments" ELSE "append"
    /\ UNCHANGED http_outcome
    /\ UNCHANGED <<company_number, officers, i, appointments, j, officer_data,
                   connected_companies, fetch_log, progress_log, result, session_state,
                   warnings, sorted_conn, sorted_companies>>
    /\ UNCHANGED outside_run

\* variant: a failed request ends the run with no data
GetOfficerAppointmentsAbort ==
    /\ pc = "get_appointments"
    /\ \E outcome \in Outcomes,
          items \in SeqsUpTo(AppointmentRecords, RecordsLeft) :
         /\ outcome # "200" => items = <<>>
         /\ http_outcome' = outcome
         /\ appointments' = ResponseItems(outcome, items)
         /\ fetch_log' = Append(fetch_log, [officer |-> i, officer_id |-> officer_id.val,
                                            outcome |-> outcome, items |-> appointments'])
         /\ IF outcome = "200"
            THEN pc' = "sleep" /\ UNCHANGED result
            ELSE pc' = "returned" /\ result' = NoDataResult
    /\ UNCHANGED <<company_number, officers, i, officer_id, officer_info, j, officer_data,
                   connected_companies, progress_log, session_state, warnings,
                   sorted_conn, sorted_companies>>
    /\ UNCHANGED outside_run

\* appointments = get_officer_appointments(officer_id)
GetOfficerAppointments ==
    /\ pc = "get_appointments"
    /\ \E outcome \in Outcomes,
          items \in SeqsUpTo(AppointmentRecords, RecordsLeft) :
         /\ outcome # "200" => items = <<>>
         /\ http_outcome' = outcome
         /\ appointments' = ResponseItems(outcome, items)
         /\ fetch_log' = Append(fetch_log, [officer |-> i, officer_id |-> officer_id.val,
                                            outcome |-> outcome, items |-> appointments'])
    /\ pc' = "sleep"
    /\ UNCHANGED <<company_number, officers, i, officer_id, officer_info, j, officer_data,
                   connected_companies, progress_log, result, session_state, warnings,
                   sorted_conn, sorted_companies>>
    /\ UNCHANGED outside_run

\* variant: an officer whose answer was empty is asked for once more
SleepThenRefetch ==
    /\ pc = "sleep"
    /\ j' = 1
    /\ pc' = IF appointments # <<>> THEN "appointment"
             ELSE IF Len(fetch_log) >= 2 /\ fetch_log[Len(fetch_log) - 1].officer = i
                  THEN "append"
                  ELSE "get_appointments"
    /\ UNCHANGED http_outcome
    /\ UNCHANGED <<company_number, officers, i, officer_id, officer_info, appointments,
                   officer_data, connected_companies, fetch_log, progress_log, result,
                   session_state, warnings, sorted_conn, sorted_companies>>
    /\ UNCHANGED outside_run

\* time.sleep(0.2), then the loop over the appointments starts
Sleep ==
    /\ pc = "sleep"
    /\ j' = 1
    /\ pc' = IF appointments = <<>> THEN "append" ELSE "appointment"
    /\ UNCHANGED http_outcome
    /\ UNCHANGED <<company_number, officers, i, officer_id, officer_info, appointments,
                   officer_data, connected_companies, fetch_log, progress_log, result,
                   session_state, warnings, sorted_conn, sorted_companies>>
    /\ UNCHANGED outside_run

\* one pass of "for appt in appointments"
ProcessAppointment ==
    /\ pc = "appointment"
    /\ LET appt == appointments[j]
       IN  IF IsSourceCompany(ApptCompanyNumber(appt), company_number)
           THEN UNCHANGED <<officer_info, connected_companies>>
           ELSE /\ officer_info' =
                     [officer_info EXCEPT !.other_companies = Append(@, OtherCompany(appt))]
                /\ connected_companies' = TrackConnected(connected_companies, appt, officer_info)
    /\ j' = j + 1
    /\ pc' = IF j = Len(appointments) THEN "append" ELSE "appointment"
    /\ UNCHANGED http_outcome
    /\ UNCHANGED <<company_number, officers, i, officer_id, appointments, officer_data,
                   fetch_log, progress_log, result, session_state, warnings, sorted_conn,
                   sorted_companies>>
    /\ UNCHANGED outside_run

\* variant: an officer without an id is left out of the list
AppendOfficerSkipNoId ==
    /\ pc = "append"
    /\ officer_data' = IF Truthy(officer_id) THEN Append(officer_data, officer_info)
                       ELSE officer_data
    /\ i' = i + 1
    /\ pc' = IF i = Len(officers) THEN "return" ELSE "progress"
    /\ UNCHANGED http_outcome
    /\ UNCHANGED <<company_number, officers, officer_id, officer_info, appointments, j,
                   connected_companies, fetch_log, progress_log, result, session_state,
                   warnings, sorted_conn, sorted_companies>>
    /\ UNCHANGED outside_run

\* officer_data.append(officer_info), then the next officer or the end of the loop
AppendOfficer ==
    /\ pc = "append"
    /\ officer_data' = Append(officer_data, officer_info)
    /\ i' = i + 1
    /\ pc' = IF i = Len(officers) THEN "return" ELSE "progress"
    /\ UNCHANGED http_outcome
    /\ UNCHANGED <<company_number, officers, officer_id, officer_info, appointments, j,
                   connected_companies, fetch_log, progress_log, result, session_state,
                   warnings, sorted_conn, sorted_companies>>
    /\ UNCHANGED outside_run

\* return officer_data, dict(connected_companies)
Return ==
    /\ pc = "return"
    /\ result' = [officers |-> Some(officer_data), connected |-> Some(connected_companies)]
    /\ pc' = "returned"
    /\ UNCHANGED http_outcome
    /\ UNCHANGED <<company_number, officers, i, officer_id, officer_info, appointments, j,
                   officer_data, connected_companies, fetch_log, progress_log, session_state,
                   warnings, sorted_conn, sorted_companies>>
    /\ UNCHANGED outside_run

\* the handler after the call: "if officers and connected: ... else: st.warning(...)"
StoreResults ==
    /\ pc = "returned"
    /\ IF Truthy(result.officers) /\ Truthy(result.connected)
       THEN /\ session_state' =
                 [mapping_results |->
                     Some([source |-> [number |-> company_number],
                           officers |-> result.officers.val,
                           connected |-> result.connected.val])]
            /\ UNCHANGED warnings
       ELSE /\ warnings' = Append(warnings, "No officers found for this company.")
            /\ UNCHANGED session_state
    /\ pc' = "results"
    /\ UNCHANGED http_outcome
    /\ UNCHANGED <<company_number, officers, i, officer_id, officer_info, appointments, j,
                   officer_data, connected_companies, fetch_log, progress_log, result,
                   sorted_conn, sorted_companies>>
    /\ UNCHANGED outside_run

\* variant: the stored connections map is sorted in place
ResultsSectionSortInPlace ==
    /\ pc = "results"
    /\ ~session_state.mapping_results.none
    /\ sorted_conn' = SortedByShared(session_state.mapping_results.val.connected)
    /\ sorted_companies' = SortedByShared(session_state.mapping_results.val.connected)
    /\ session_state' =
         [mapping_results |->
             Some([session_state.mapping_results.val EXCEPT !.connected = sorted_conn'])]
    /\ pc' = "done"
    /\ UNCHANGED http_outcome
    /\ UNCHANGED <<company_number, officers, i, officer_id, officer_info, appointments, j,
                   officer_data, connected_companies, fetch_log, progress_log, result,
                   warnings>>
    /\ UNCHANGED outside_run

\* Steps 4 and 5, shown when a result is stored: the results tab ranks the
\* connected companies, then create_excel(source, officers, connected) ranks
\* them again for the "Connected Companies" sheet
ResultsSection ==
    /\ pc = "results"
    /\ ~session_state.mapping_results.none
    /\ sorted_conn' = SortedByShared(session_state.mapping_results.val.connected)
    /\ sorted_companies' = SortedByShared(session_state.mapping_results.val.connected)
    /\ pc' = "done"
    /\ UNCHANGED http_outcome
    /\ UNCHANGED <<company_number, officers, i, officer_id, officer_info, appointments, j,
                   officer_data, connected_companies, fetch_log, progress_log, result,
                   session_state, warnings>>
    /\ UNCHANGED outside_run

\* no stored result: the results section is skipped
NoResults ==
    /\ pc = "results"
    /\ session_state.mapping_results.none
    /\ pc' = "done"
    /\ UNCHANGED http_outcome
    /\ UNCHANGED <<company_number, officers, i, officer_id, officer_info, appointments, j,
                   officer_data, connected_companies, fetch_log, progress_log, result,
                   session_state, warnings, sorted_conn, sorted_companies>>
    /\ UNCHANGED outside_run

Next ==
    \/ MapNetworkClicked
    \/ GetCompanyOfficers
    \/ ProgressCallback
    \/ ReadOfficer
    \/ GetOfficerAppointments
    \/ Sleep
    \/ ProcessAppointment
    \/ AppendOfficer
    \/ Return
    \/ StoreResults
    \/ ResultsSection
    \/ NoResults

Spec == Init /\ [][Next]_vars

TypeOK ==
    /\ pc \in {"idle", "get_officers", "progress", "officer", "get_appointments", "sleep",
               "appointment", "append", "return", "returned", "results", "done"}
    /\ i \in 0..(MaxRecords + 1)
    /\ Len(officer_data) <= Len(officers)

-----------------------------------------------------------------------------
(* Observers used by the properties.                                       *)

\* map_corporate_network has returned
AfterReturn == pc \in {"returned", "results", "done"}

\* ... and it returned a network
ReturnedNetwork == AfterReturn /\ ~result.officers.none /\ ~result.connected.none

\* every (officer, appointment) pair the requests of the run returned, in the
\* order in which the run processes them
RECURSIVE FetchedPairs(_)
FetchedPairs(log) ==
    IF log = <<>> THEN <<>>
    ELSE [m \in 1..Len(Head(log).items) |->
             [officer |-> Head(log).officer, appt |-> Head(log).items[m]]]
         \o FetchedPairs(Tail(log))

\* the positions of the pairs naming company c
PairsNaming(c) ==
    LET pairs == FetchedPairs(fetch_log)
    IN  { m \in 1..Len(pairs) : ApptCompanyNumber(pairs[m].appt) = c }

\* the officers (positions in the officers list) with a pair naming company c
OfficersNaming(c) ==
    LET pairs == FetchedPairs(fetch_log)
    IN  { pairs[m].officer : m \in PairsNaming(c) }

Max(S) == CHOOSE x \in S : \A y \in S : y <= x
Min(S) == CHOOSE x \in S : \A y \in S : x <= y

\* the links of the record set from which an officer id can be taken
WellFormedLinks == {LinkAB, LinkCD}

-----------------------------------------------------------------------------
(* Properties.                                                             *)

\* C1: whatever the registry answers, the seed company's number is never a
\* key of the connections map and never the company_number of an entry of
\* an officer's other_companies, during the run and in what it returns.
C1_SeedNeverConnected ==
    /\ \A k \in 1..Len(connected_companies) : connected_companies[k].key # company_number
    /\ \A m \in 1..Len(officer_info.other_companies) :
           officer_info.other_companies[m].company_number # company_number
    /\ ReturnedNetwork =>
           /\ \A k \in 1..Len(result.connected.val) :
                  result.connected.val[k].key # company_number
           /\ \A o \in 1..Len(result.officers.val) :
                  \A m \in 1..Len(result.officers.val[o].other_companies) :
                      result.officers.val[o].other_companies[m].company_number
                          # company_number

\* C1 witness: a run has returned a network although a request returned an
\* appointment at the seed company
C1_Witness ==
    /\ ReturnedNetwork
    /\ PairsNaming(company_number) # {}
    /\ result.connected.val # <<>>

\* C2: at return, each key's shared_officers has one element per fetched
\* (officer, appointment) pair naming that company, duplicates included.
C2_SharedCountsPairs ==
    ReturnedNetwork =>
        \A k \in 1..Len(result.connected.val) :
            Len(result.connected.val[k].shared_officers)
                = Cardinality(PairsNaming(result.connected.val[k].key))

\* C2 witness: one request returned the same appointment record twice and the
\* company's entry counts it twice
C2_Witness ==
    /\ ReturnedNetwork
    /\ \E e \in 1..Len(fetch_log) :
           /\ Len(fetch_log[e].items) >= 2
           /\ fetch_log[e].items[1] = fetch_log[e].items[2]
           /\ \E k \in 1..Len(result.connected.val) :
                  /\ result.connected.val[k].key = ApptCompanyNumber(fetch_log[e].items[1])
                  /\ Len(result.connected.val[k].shared_officers) >= 2

\* C3 as stated: at return, each key's shared_officers has one element per
\* distinct officer record whose appointment list names the company.
C3_Original ==
    ReturnedNetwork =>
        \A k \in 1..Len(result.connected.val) :
            Len(result.connected.val[k].shared_officers)
                = Cardinality(OfficersNaming(result.connected.val[k].key))

\* C3 amended: the length equals the number of distinct officer records
\* naming the company when no officer's list names the company more than
\* once, and exceeds it otherwise.
C3_SharedCountVsOfficers ==
    ReturnedNetwork =>
        \A k \in 1..Len(result.connected.val) :
            LET c == result.connected.val[k].key
                n == Len(result.connected.val[k].shared_officers)
            IN  IF Cardinality(PairsNaming(c)) = Cardinality(OfficersNaming(c))
                THEN n = Cardinality(OfficersNaming(c))
                ELSE n > Cardinality(OfficersNaming(c))

\* C3 witness: of two officer records one names a company twice, and the
\* company's entry lists two shared officers
C3_Witness ==
    /\ ReturnedNetwork
    /\ Len(officers) = 2
    /\ \E k \in 1..Len(result.connected.val) :
           /\ Cardinality(OfficersNaming(result.connected.val[k].key)) = 1
           /\ Len(result.connected.val[k].shared_officers) = 2

\* C4: when the officers fetch returned at least one record, the returned
\* officer list has one entry per record, in the fetched order.
C4_OfficerListMatchesFetch ==
    (AfterReturn /\ officers # <<>>) =>
        /\ ~result.officers.none
        /\ Len(result.officers.val) = Len(officers)
        /\ \A k \in 1..Len(officers) :
               /\ result.officers.val[k].name = Get(officers[k], "name", "Unknown")
               /\ result.officers.val[k].role = Get(officers[k], "officer_role", "Unknown")
               /\ result.officers.val[k].appointed = Get(officers[k], "appointed_on", "N/A")
               /\ result.officers.val[k].resigned.none = ("resigned_on" \notin DOMAIN officers[k])

\* C4 witness: a returned list of three officers of which one has no usable
\* id and one had a failed appointments request
C4_Witness ==
    /\ AfterReturn
    /\ Len(officers) = 3
    /\ \E k \in 1..3 : ~Truthy(result.officers.val[k].officer_id)
    /\ \E e \in 1..Len(fetch_log) : fetch_log[e].outcome # "200"

\* C5: (None, None) is returned exactly when the officers fetch returned no
\* record; then no appointments request was issued and the progress callback
\* was not invoked; otherwise both returned values are not None.
C5_NoDataSentinel ==
    AfterReturn =>
        /\ (result.officers.none /\ result.connected.none) <=> (officers = <<>>)
        /\ officers = <<>> => (fetch_log = <<>> /\ progress_log = <<>>)
        /\ officers # <<>> => (~result.officers.none /\ ~result.connected.none)

\* C5 witness: the officers request succeeded with no record and the run
\* returned the sentinel
C5_Witness ==
    /\ pc = "returned"
    /\ http_outcome = "200"
    /\ officers = <<>>
    /\ result.officers.none

\* C6 as stated: a run with no officers is reported as no data, and a run
\* that fetched an officer but found no connected company is stored as a
\* valid empty network without the "No officers found" warning.
C6_EmptyNetworkStored ==
    pc = "done" =>
        /\ officers = <<>> => (warnings # <<>> /\ session_state.mapping_results.none)
        /\ officers # <<>> => (warnings = <<>> /\ ~session_state.mapping_results.none)

\* an officer record whose appointments link is missing, empty or malformed
NoUsableLink(officer) == OfficerLink(officer) \notin WellFormedLinks

\* C7: for an officer whose appointments link is missing, empty or does not
\* give a non-empty id, no appointments request is issued, the officer's
\* entry has other_companies = [], and no step of that officer's loop pass
\* changes the connections map.
C7_NoIdNoFetch ==
    /\ [](\A k \in 1..Len(officers) :
             NoUsableLink(officers[k]) =>
                 /\ \A e \in 1..Len(fetch_log) : fetch_log[e].officer # k
                 /\ k <= Len(officer_data) =>
                        (/\ officer_data[k].other_companies = <<>>
                         /\ ~Truthy(officer_data[k].officer_id))
                 /\ (AfterReturn /\ ~result.officers.none) =>
                        (/\ k <= Len(result.officers.val)
                         /\ result.officers.val[k].other_companies = <<>>))
    /\ [][(/\ pc \in {"progress", "officer", "append"}
           /\ i \in 1..Len(officers)
           /\ NoUsableLink(officers[i]))
          => connected_companies' = connected_companies]_vars

\* C7 witness: a network was returned in which an officer with a malformed
\* link follows an officer who contributed a connection
C7_Witness ==
    /\ ReturnedNetwork
    /\ result.connected.val # <<>>
    /\ \E k \in 2..Len(officers) :
           /\ NoUsableLink(officers[k])
           /\ OfficerLink(officers[k]) # <<>>
           /\ result.officers.val[k].other_companies = <<>>

\* the company numbers that the successful requests connect to the seed
ConnectedByFetches ==
    { c \in { ApptCompanyNumber(a) : a \in AppointmentRecords } :
        /\ c # ""
        /\ c # company_number
        /\ \E e \in 1..Len(fetch_log) :
               /\ fetch_log[e].outcome = "200"
               /\ \E m \in 1..Len(fetch_log[e].items) :
                      ApptCompanyNumber(fetch_log[e].items[m]) = c }

\* C8: a failed appointments request counts as zero appointments for its
\* officer and does not end the run: every officer is still processed, the
\* full officer list is returned and the map holds what the successful
\* requests gave.
C8_FailedFetchDoesNotAbort ==
    /\ \A e \in 1..Len(fetch_log) :
           fetch_log[e].outcome # "200" =>
               /\ fetch_log[e].items = <<>>
               /\ (e = Len(fetch_log) /\ pc = "sleep") => appointments = <<>>
               /\ fetch_log[e].officer <= Len(officer_data) =>
                      officer_data[fetch_log[e].officer].other_companies = <<>>
    /\ (AfterReturn /\ officers # <<>>) =>
           /\ ReturnedNetwork
           /\ Len(result.officers.val) = Len(officers)
           /\ \A k \in 1..Len(officers) :
                  ~NoUsableLink(officers[k]) =>
                      \E e \in 1..Len(fetch_log) : fetch_log[e].officer = k
           /\ { result.connected.val[k].key : k \in 1..Len(result.connected.val) }
                  = ConnectedByFetches

\* C8 witness: the first appointments request failed, a later one succeeded,
\* and the returned map holds what the later one gave
C8_Witness ==
    /\ ReturnedNetwork
    /\ Len(fetch_log) >= 2
    /\ fetch_log[1].outcome # "200"
    /\ fetch_log[2].outcome = "200"
    /\ result.connected.val # <<>>

\* r ranks the items of conn: same items, counts descending, equal counts in
\* the order of conn
Ranks(r, conn) ==
    /\ Len(r) = Len(conn)
    /\ \A k \in 1..Len(r) : \E m \in 1..Len(conn) : conn[m] = r[k]
    /\ \A k, l \in 1..Len(r) :
           k < l =>
               /\ SharedCount(r[k]) >= SharedCount(r[l])
               /\ SharedCount(r[k]) = SharedCount(r[l]) =>
                      KeyIndex(conn, r[k].key) < KeyIndex(conn, r[l].key)

\* C9: the results tab and the "Connected Companies" sheet rank the
\* connected companies by number of shared officers, descending, and
\* companies with equal numbers stay in the order of their first discovery
\* in the run (the order of the connections map).
C9_StableRanking ==
    (pc = "done" /\ ~session_state.mapping_results.none) =>
        LET conn == session_state.mapping_results.val.connected
        IN  /\ Ranks(sorted_conn, conn)
            /\ Ranks(sorted_companies, conn)
            /\ \A m, n \in 1..Len(conn) :
                   m < n => Min(PairsNaming(conn[m].key)) < Min(PairsNaming(conn[n].key))

\* C9 witness: a ranking was made of a map with two companies of equal count
C9_Witness ==
    /\ pc = "done"
    /\ Len(sorted_conn) >= 2
    /\ Len(sorted_companies) >= 2
    /\ SharedCount(sorted_conn[1]) = SharedCount(sorted_conn[2])

\* C10: at return, the company snapshot of each entry holds the name and
\* status of the appointment naming that company that was processed last,
\* while shared_officers holds one element for each such appointment, in
\* processing order.
C10_LastWriteWins ==
    ReturnedNetwork =>
        \A k \in 1..Len(result.connected.val) :
            LET item == result.connected.val[k]
                pairs == FetchedPairs(fetch_log)
                last == pairs[Max(PairsNaming(item.key))]
                Names(p) == ApptCompanyNumber(p.appt) = item.key
                naming == SelectSeq(pairs, Names)
            IN  /\ ~item.company.none
                /\ item.company.val.name = ApptCompanyName(last.appt)
                /\ item.company.val.status = ApptStatus(last.appt)
                /\ Len(item.shared_officers) = Len(naming)
                /\ \A m \in 1..Len(naming) :
                       /\ item.shared_officers[m].role_at_connected = ApptRole(naming[m].appt)
                       /\ item.shared_officers[m].name
                              = Get(officers[naming[m].officer], "name", "Unknown")

\* C10 witness: two appointments naming one company with different name and
\* status were processed, and the entry shows the later one's
C10_Witness ==
    /\ ReturnedNetwork
    /\ \E k \in 1..Len(result.connected.val) :
           LET item == result.connected.val[k]
               pairs == FetchedPairs(fetch_log)
               first == pairs[Min(PairsNaming(item.key))]
           IN  /\ Cardinality(PairsNaming(item.key)) >= 2
               /\ ApptCompanyName(first.appt) # item.company.val.name
               /\ ApptStatus(first.appt) # item.company.val.status

-----------------------------------------------------------------------------
(* categorize_entities (subsidiary_mapper.py): the name classifier.        *)
(* Strings are sequences of characters; str.lower, str.split and the       *)
(* substring test "in" are computed on them.                               *)

\* most entities in the list given to categorize_entities
MaxEntities == 2

UpperCase == <<"A", "B", "C", "D", "E", "F", "G", "H", "I", "J", "K", "L", "M",
               "N", "O", "P", "Q", "R", "S", "T", "U", "V", "W", "X", "Y", "Z">>
LowerCase == <<"a", "b", "c", "d", "e", "f", "g", "h", "i", "j", "k", "l", "m",
               "n", "o", "p", "q", "r", "s", "t", "u", "v", "w", "x", "y", "z">>

\* str.lower()
LowerChar(c) ==
    IF \E k \in 1..Len(UpperCase) : UpperCase[k] = c
    THEN LowerCase[CHOOSE k \in 1..Len(UpperCase) : UpperCase[k] = c]
    ELSE c

Lower(s) == [k \in 1..Len(s) |-> LowerChar(s[k])]

\* str.split(): the maximal runs of characters that are not white space
RECURSIVE SplitWordsAcc(_, _, _)
SplitWordsAcc(s, cur, acc) ==
    IF s = <<>> THEN (IF cur = <<>> THEN acc ELSE Append(acc, cur))
    ELSE IF Head(s) = " "
         THEN SplitWordsAcc(Tail(s), <<>>, IF cur = <<>> THEN acc ELSE Append(acc, cur))
         ELSE SplitWordsAcc(Tail(s), Append(cur, Head(s)), acc)

SplitWords(s) == SplitWordsAcc(s, <<>>, <<>>)

\* "w in s" for strings
Contains(s, w) ==
    \E k \in 0..(Len(s) - Len(w)) : SubSeq(s, k + 1, k + Len(w)) = w

\* seq[:n]
Take(seq, n) == SubSeq(seq, 1, IF Len(seq) < n THEN Len(seq) ELSE n)

NameAcmeHoldingsLimited ==
    <<"A", "c", "m", "e", " ", "H", "o", "l", "d", "i", "n", "g", "s", " ", "L", "i",
      "m", "i", "t", "e", "d">>

NameUKAcme ==
    <<"U", "K", " ", "A", "c", "m", "e">>

NameBetaGasWestern ==
    <<"B", "e", "t", "a", " ", "G", "a", "s", " ", "W", "e", "s", "t", "e", "r", "n">>

NameAcmeEurope ==
    <<"A", "c", "m", "e", " ", "H", "o", "l", "d", "i", "n", "g", "s", " ", "(", "E",
      "u", "r", "o", "p", "e", ")", " ", "L", "i", "m", "i", "t", "e", "d">>

NameAcmeUpper ==
    <<"A", "C", "M", "E", " ", "H", "O", "L", "D", "I", "N", "G", "S", " ", "L", "I",
      "M", "I", "T", "E", "D">>

NameAcmeTrustees ==
    <<"A", "c", "m", "e", " ", "H", "o", "l", "d", "i", "n", "g", "s", " ", "L", "i",
      "m", "i", "t", "e", "d", " ", "T", "r", "u", "s", "t", "e", "e", "s">>

NameBetaHoldings ==
    <<"B", "e", "t", "a", " ", "H", "o", "l", "d", "i", "n", "g", "s", " ", "L", "t",
      "d">>

NameWesternPower ==
    <<"W", "e", "s", "t", "e", "r", "n", " ", "P", "o", "w", "e", "r">>

TypeLtd ==
    <<"l", "t", "d">>

TypePLC ==
    <<"P", "L", "C">>

TypePlcLower ==
    <<"p", "l", "c">>

TypePublicLimited ==
    <<"p", "u", "b", "l", "i", "c", " ", "l", "i", "m", "i", "t", "e", "d", " ", "c",
      "o", "m", "p", "a", "n", "y">>

TypeHolding ==
    <<"h", "o", "l", "d", "i", "n", "g", " ", "c", "o", "m", "p", "a", "n", "y">>

\* parent names given to categorize_entities
ParentNames == {NameAcmeHoldingsLimited, NameUKAcme, NameBetaGasWestern}

\* entities the searches may return
EntityRecords ==
    { [name |-> NameAcmeEurope, company_type |-> TypeLtd],
      [name |-> NameAcmeUpper, company_type |-> TypeLtd],
      [name |-> NameAcmeTrustees, company_type |-> TypeLtd],
      [name |-> NameAcmeTrustees, company_type |-> TypePLC],
      [name |-> NameBetaHoldings],
      [name |-> NameWesternPower, company_type |-> TypeLtd],
      [company_type |-> TypeLtd] }

\* the company types that mark a parent
ParentTypes == {TypePlcLower, TypePublicLimited, TypeHolding}

\* variant: the entity's name is compared as written
EntityNameRaw(entity) == Get(entity, "name", <<>>)

\* name = entity.get('name', '').lower()
EntityName(entity) == Lower(Get(entity, "name", <<>>))

\* "Check if this is the parent company"
IsParent(entity, parent) ==
    \/ EntityName(entity) = Lower(parent)
    \/ /\ Contains(EntityName(entity), Lower(parent))
       /\ Lower(Get(entity, "company_type", <<>>)) \in ParentTypes

\* variant: the parent name, or its first two words together, occur in the name
IsLikelySubsidiaryByWords(entity, parent) ==
    \/ Contains(EntityName(entity), Lower(parent))
    \/ /\ Len(SplitWords(Lower(parent))) >= 2
       /\ \A k \in 1..2 : Contains(EntityName(entity), SplitWords(Lower(parent))[k])

\* "Check for clear subsidiary patterns"
IsLikelySubsidiary(entity, parent) == Contains(EntityName(entity), Lower(parent))

\* variant: only the first word of the parent name is used
RelatedWordsFirstOnly(parent) ==
    LET words == Take(SplitWords(Lower(parent)), 1)
    IN  { words[k] : k \in { m \in 1..Len(words) : Len(words[m]) > 3 } }

\* the words of parent_name_lower.split()[:2] with len(word) > 3
RelatedWords(parent) ==
    LET words == Take(SplitWords(Lower(parent)), 2)
    IN  { words[k] : k \in { m \in 1..Len(words) : Len(words[m]) > 3 } }

\* "Check for related company patterns"
IsRelated(entity, parent) ==
    \E word \in RelatedWords(parent) : Contains(EntityName(entity), word)

\* the categories dict at the start of a call
EmptyCategories ==
    [parent |-> <<>>, likely_subsidiaries |-> <<>>, related |-> <<>>, other |-> <<>>]

\* variant: every test that succeeds files the entity
CategorizeEntityNoElif(cats, entity, parent) ==
    LET p == IsParent(entity, parent)
        l == IsLikelySubsidiary(entity, parent)
        r == IsRelated(entity, parent)
    IN  [parent |-> IF p THEN Append(cats.parent, entity) ELSE cats.parent,
         likely_subsidiaries |-> IF l THEN Append(cats.likely_subsidiaries, entity)
                                 ELSE cats.likely_subsidiaries,
         related |-> IF ~p /\ ~l /\ r THEN Append(cats.related, entity) ELSE cats.related,
         other |-> IF ~p /\ ~l /\ ~r THEN Append(cats.other, entity) ELSE cats.other]

\* variant: only the first entity that looks like the parent is filed as parent
CategorizeEntityOneParent(cats, entity, parent) ==
    IF IsParent(entity, parent) /\ cats.parent = <<>>
    THEN [cats EXCEPT !.parent = Append(@, entity)]
    ELSE IF IsLikelySubsidiary(entity, parent)
    THEN [cats EXCEPT !.likely_subsidiaries = Append(@, entity)]
    ELSE IF IsRelated(entity, parent)
    THEN [cats EXCEPT !.related = Append(@, entity)]
    ELSE [cats EXCEPT !.other = Append(@, entity)]

\* the body of "for entity in entities": the if / elif chain
CategorizeEntity(cats, entity, parent) ==
    IF IsParent(entity, parent)
    THEN [cats EXCEPT !.parent = Append(@, entity)]
    ELSE IF IsLikelySubsidiary(entity, parent)
    THEN [cats EXCEPT !.likely_subsidiaries = Append(@, entity)]
    ELSE IF IsRelated(entity, parent)
    THEN [cats EXCEPT !.related = Append(@, entity)]
    ELSE [cats EXCEPT !.other = Append(@, entity)]

\* categorize_entities(entities, parent_name) is called
InitClassify ==
    /\ c_pc = "first"
    /\ parent_name \in ParentNames
    /\ entities \in SeqsUpTo(EntityRecords, MaxEntities)
    /\ c_order = <<>>
    /\ c_idx = 1
    /\ categories = EmptyCategories
    /\ categories_again = EmptyCategories
    /\ pc = "idle"
    /\ InitRun
    /\ api_key = TRUE
    /\ ClientIdle
    /\ AsideIdle

\* one pass of the loop of the call
CategorizeNext ==
    /\ c_pc = "first"
    /\ c_idx <= Len(entities)
    /\ categories' = CategorizeEntity(categories, entities[c_idx], parent_name)
    /\ c_idx' = c_idx + 1
    /\ UNCHANGED <<c_pc, parent_name, entities, c_order, categories_again>>
    /\ UNCHANGED <<run_vars, api_key, client_vars, aside_vars>>

\* the call returns; the same entities are given again in some other order
CategorizeReordered ==
    /\ c_pc = "first"
    /\ c_idx > Len(entities)
    /\ c_order' \in Permutations(1..Len(entities))
    /\ c_idx' = 1
    /\ c_pc' = "second"
    /\ UNCHANGED <<parent_name, entities, categories, categories_again>>
    /\ UNCHANGED <<run_vars, api_key, client_vars, aside_vars>>

\* one pass of the loop of the call on the reordered list
CategorizeAgainNext ==
    /\ c_pc = "second"
    /\ c_idx <= Len(entities)
    /\ categories_again' =
           CategorizeEntity(categories_again, entities[c_order[c_idx]], parent_name)
    /\ c_idx' = c_idx + 1
    /\ UNCHANGED <<c_pc, parent_name, entities, c_order, categories>>
    /\ UNCHANGED <<run_vars, api_key, client_vars, aside_vars>>

\* the second call returns
CategorizeAgainReturn ==
    /\ c_pc = "second"
    /\ c_idx > Len(entities)
    /\ c_pc' = "done"
    /\ UNCHANGED <<parent_name, entities, c_order, c_idx, categories, categories_again>>
    /\ UNCHANGED <<run_vars, api_key, client_vars, aside_vars>>

NextClassify ==
    \/ CategorizeNext
    \/ CategorizeReordered
    \/ CategorizeAgainNext
    \/ CategorizeAgainReturn

SpecClassify == InitClassify /\ [][NextClassify]_vars

-----------------------------------------------------------------------------
(* Properties of categorize_entities.                                      *)

\* the first call of categorize_entities has returned
FirstCallReturned == c_pc \in {"second", "done"}

\* how often e occurs in seq
Count(e, seq) == Cardinality({ k \in 1..Len(seq) : seq[k] = e })

\* the bucket names
Buckets == {"parent", "likely_subsidiaries", "related", "other"}

\* the lowercased name of the k-th entity, read from the input
InputName(k) == Lower(Get(entities[k], "name", <<>>))

\* the stopword set of the specification, lowercased
Stopwords ==
    { <<"l", "i", "m", "i", "t", "e", "d">>,
      <<"l", "t", "d">>,
      <<"p", "l", "c">>,
      <<"h", "o", "l", "d", "i", "n", "g", "s">>,
      <<"g", "r", "o", "u", "p">>,
      <<"t", "h", "e">>,
      <<"a", "n", "d">>,
      <<"&">>,
      <<"i", "n", "c">>,
      <<"c", "o", "r", "p">>,
      <<"u", "k">> }

\* the significant tokens of the parent name in the specification's sense:
\* its lowercased words without the stopwords and without words of at most
\* two characters
SignificantTokens ==
    LET NotStripped(w) == w \notin Stopwords /\ Len(w) > 2
    IN  SelectSeq(SplitWords(Lower(parent_name)), NotStripped)

\* C11: every entity given to categorize_entities is filed in exactly one
\* bucket: no entity is in two buckets, every entity occurs in the buckets as
\* often as in the input, and an empty input gives four empty buckets.
C11_Partition ==
    FirstCallReturned =>
        /\ \A e \in EntityRecords :
               /\ Count(e, entities)
                      = Count(e, categories.parent)
                        + Count(e, categories.likely_subsidiaries)
                        + Count(e, categories.related) + Count(e, categories.other)
               /\ \A b1, b2 \in Buckets :
                      (b1 # b2 /\ Count(e, categories[b1]) > 0)
                          => Count(e, categories[b2]) = 0
        /\ Len(categories.parent) + Len(categories.likely_subsidiaries)
               + Len(categories.related) + Len(categories.other) = Len(entities)
        /\ entities = <<>> => categories = EmptyCategories

\* C11 witness: the same entity was given twice, it matches the parent test
\* and the substring test, and it is filed twice under parent only
C11_Witness ==
    /\ FirstCallReturned
    /\ Len(entities) = 2
    /\ entities[1] = entities[2]
    /\ Len(categories.parent) = 2
    /\ Contains(InputName(1), Lower(parent_name))

\* C12 as stated: an entity is filed under likely_subsidiaries whenever the
\* lowercased parent name is a substring of its lowercased name or the first
\* two significant tokens of the parent name both occur in it.
C12_Original ==
    FirstCallReturned =>
        \A k \in 1..Len(entities) :
            (\/ Contains(InputName(k), Lower(parent_name))
             \/ /\ Len(SignificantTokens) >= 2
                /\ Contains(InputName(k), SignificantTokens[1])
                /\ Contains(InputName(k), SignificantTokens[2]))
                => Count(entities[k], categories.likely_subsidiaries) > 0

\* C12 amended: an entity is filed under likely_subsidiaries exactly when the
\* lowercased parent name is a substring of its lowercased name and the
\* entity is not the parent (its name is not the parent name and its company
\* type is none of plc, public limited company, holding company); words of
\* the parent name occurring in it do not make it a likely subsidiary.
C12_LikelyIsSubstringNotParent ==
    FirstCallReturned =>
        \A k \in 1..Len(entities) :
            Count(entities[k], categories.likely_subsidiaries) > 0
                <=> /\ Contains(InputName(k), Lower(parent_name))
                    /\ InputName(k) # Lower(parent_name)
                    /\ Lower(Get(entities[k], "company_type", <<>>)) \notin ParentTypes

\* C12 witness: of two entities one contains the parent name and is filed
\* under likely_subsidiaries, the other contains only its first two words
C12_Witness ==
    /\ FirstCallReturned
    /\ parent_name = NameAcmeHoldingsLimited
    /\ Len(categories.likely_subsidiaries) = 1
    /\ \E k \in 1..Len(entities) : Get(entities[k], "name", <<>>) = NameAcmeEurope

\* C13 as stated: for the parent name "Acme Holdings Limited" the entity
\* "Acme Holdings (Europe) Limited" is filed under likely_subsidiaries.
C13_Original ==
    (FirstCallReturned /\ parent_name = NameAcmeHoldingsLimited) =>
        \A k \in 1..Len(entities) :
            Get(entities[k], "name", <<>>) = NameAcmeEurope
                => Count(entities[k], categories.likely_subsidiaries) > 0

\* C13 amended: for the parent name "Acme Holdings Limited" the entity
\* "Acme Holdings (Europe) Limited" is filed under related, and under no
\* other bucket.
C13_AcmeEuropeIsRelated ==
    (FirstCallReturned /\ parent_name = NameAcmeHoldingsLimited) =>
        \A k \in 1..Len(entities) :
            Get(entities[k], "name", <<>>) = NameAcmeEurope
                => /\ Count(entities[k], categories.related) > 0
                   /\ Count(entities[k], categories.parent) = 0
                   /\ Count(entities[k], categories.likely_subsidiaries) = 0
                   /\ Count(entities[k], categories.other) = 0

\* C13 witness: the call with that parent name and that entity has returned
C13_Witness ==
    /\ FirstCallReturned
    /\ parent_name = NameAcmeHoldingsLimited
    /\ Len(entities) = 1
    /\ Get(entities[1], "name", <<>>) = NameAcmeEurope
    /\ Len(categories.related) = 1

\* C14 as stated: an entity filed neither under parent nor under
\* likely_subsidiaries is filed under related exactly when the first
\* significant token of the parent name occurs in its lowercased name, and
\* under other otherwise.
C14_Original ==
    FirstCallReturned =>
        \A k \in 1..Len(entities) :
            (/\ Count(entities[k], categories.parent) = 0
             /\ Count(entities[k], categories.likely_subsidiaries) = 0)
                => LET hit == /\ SignificantTokens # <<>>
                              /\ Contains(InputName(k), SignificantTokens[1])
                   IN  /\ Count(entities[k], categories.related) > 0 <=> hit
                       /\ Count(entities[k], categories.other) > 0 <=> ~hit

\* C14 amended: such an entity is filed under related exactly when one of
\* the first two white-space separated words of the lowercased parent name
\* that is longer than three characters occurs in its lowercased name, and
\* under other otherwise; no stopword is removed.
C14_RelatedByFirstTwoWords ==
    FirstCallReturned =>
        \A k \in 1..Len(entities) :
            (/\ Count(entities[k], categories.parent) = 0
             /\ Count(entities[k], categories.likely_subsidiaries) = 0)
                => LET words == Take(SplitWords(Lower(parent_name)), 2)
                       hit == \E m \in 1..Len(words) :
                                  Len(words[m]) > 3 /\ Contains(InputName(k), words[m])
                   IN  /\ Count(entities[k], categories.related) > 0 <=> hit
                       /\ Count(entities[k], categories.other) > 0 <=> ~hit

\* C14 witness: an entity is filed under related through the second word of
\* the parent name, a stopword of the specification, alone
C14_Witness ==
    /\ FirstCallReturned
    /\ parent_name = NameAcmeHoldingsLimited
    /\ \E k \in 1..Len(entities) :
           /\ Get(entities[k], "name", <<>>) = NameBetaHoldings
           /\ Count(entities[k], categories.related) > 0

\* C15: the bucket of an entity depends on the entity and the parent name
\* only: the call on the same entities in another order files every entity
\* under the same bucket, and equal entities share a bucket.
C15_OrderIndependent ==
    c_pc = "done" =>
        \A e \in EntityRecords :
            /\ \A b \in Buckets : Count(e, categories[b]) = Count(e, categories_again[b])
            /\ \A b1, b2 \in Buckets :
                   (b1 # b2 /\ Count(e, categories[b1]) > 0)
                       => Count(e, categories_again[b2]) = 0

\* C15 witness: two different entities that both pass the parent test were
\* classified in both orders
C15_Witness ==
    /\ c_pc = "done"
    /\ Len(entities) = 2
    /\ entities[1] # entities[2]
    /\ c_order[1] = 2
    /\ Len(categories.parent) = 2
    /\ Len(categories_again.parent) = 2


-----------------------------------------------------------------------------
(* The Registry Client of app.py called on its own: search_companies,      *)
(* get_company_officers and get_officer_appointments.  Each one issues     *)
(* requests.get(..., headers=ch_headers(), timeout=30) inside a try block. *)

MaxCalls == 2

ClientOps == {"search_companies", "get_company_officers", "get_officer_appointments"}

\* response.status_code of an answered request
StatusCodes == {"200", "401", "404", "429", "500"}

\* requests.get raises (timeout=30 expired, no connection) or response.json()
\* raises on a 200 answer whose body is not JSON
Exceptions == {"timeout", "connection_error", "invalid_json"}

ItemOne == [company_number |-> "00000001"]
ItemTwo == [company_number |-> "00000002"]

\* the "items" of a body; a body of any status may carry the key
ItemLists == {<<>>, <<ItemOne>>, <<ItemOne, ItemTwo>>}

\* what the registry may answer to one request; more_pages says that the
\* body's total_results exceeds the items of this page
Responses ==
    [outcome : StatusCodes, items : ItemLists, more_pages : BOOLEAN]
    \cup [outcome : Exceptions, items : {<<>>}, more_pages : {FALSE}]

MsgNotConfigured == [kind |-> "error", text |-> "Companies House API key not configured."]
MsgInvalidKey == [kind |-> "error", text |-> "Invalid API key."]
MsgRateLimit == [kind |-> "warning", text |-> "Rate limit hit. Wait a moment."]
MsgRequestFailed == [kind |-> "error", text |-> "Request failed"]

\* "except Exception" (search_companies) and the bare "except" of the two
\* fetches catch everything requests.get and response.json() raise
Caught(op, exception) == exception \in Exceptions

\* variant: the items of the body are returned whatever the status
ReturnedItemsAnyStatus(response) ==
    IF response.outcome \in Exceptions THEN <<>> ELSE response.items

\* the list the operation returns for an answer: the items of a 200 body,
\* [] for every other status and in the except branch
ReturnedItems(response) ==
    IF response.outcome \in Exceptions
    THEN <<>>
    ELSE ResponseItems(response.outcome, response.items)

\* st.error / st.warning calls of the operation for an answer: only
\* search_companies has any
Messages(op, response) ==
    IF op # "search_companies" THEN <<>>
    ELSE IF response.outcome \in Exceptions THEN <<MsgRequestFailed>>
    ELSE IF response.outcome = "200" THEN <<>>
    ELSE IF response.outcome = "401" THEN <<MsgInvalidKey>>
    ELSE IF response.outcome = "429" THEN <<MsgRateLimit>>
    ELSE <<>>

\* a caller chooses the operation; the secret may or may not be configured
InitClient ==
    /\ k_pc = "ready"
    /\ k_op = "none"
    /\ requests_sent = 0
    /\ http_response = NoResponse
    /\ k_returned = None
    /\ k_raised = FALSE
    /\ ui_messages = <<>>
    /\ calls_made = 0
    /\ api_key \in BOOLEAN
    /\ pc = "idle"
    /\ InitRun
    /\ ClassifierIdle
    /\ AsideIdle

\* a caller invokes one of the three operations
Invoke ==
    /\ k_pc \in {"ready", "returned"}
    /\ calls_made < MaxCalls
    /\ \E op \in ClientOps :
        /\ k_op' = op
        /\ k_pc' = IF op = "search_companies" THEN "key_check" ELSE "request"
    /\ requests_sent' = 0
    /\ http_response' = NoResponse
    /\ k_returned' = None
    /\ k_raised' = FALSE
    /\ ui_messages' = <<>>
    /\ UNCHANGED <<calls_made, api_key, run_vars, classify_vars, aside_vars>>

\* search_companies: api_key = get_ch_api_key(); if not api_key: st.error, return []
SearchKeyCheck ==
    /\ k_pc = "key_check"
    /\ IF api_key
       THEN /\ k_pc' = "request"
            /\ UNCHANGED <<k_returned, ui_messages, calls_made>>
       ELSE /\ k_pc' = "returned"
            /\ k_returned' = Some(<<>>)
            /\ ui_messages' = Append(ui_messages, MsgNotConfigured)
            /\ calls_made' = calls_made + 1
    /\ UNCHANGED <<k_op, requests_sent, http_response, k_raised, api_key, run_vars,
                   classify_vars, aside_vars>>

\* requests.get(url, headers=ch_headers(), timeout=30): ch_headers() is {}
\* without a key and the request is sent all the same
SendRequest ==
    /\ k_pc = "request"
    /\ requests_sent' = requests_sent + 1
    /\ http_response' \in Responses
    /\ k_pc' = "response"
    /\ UNCHANGED <<k_op, k_returned, k_raised, ui_messages, calls_made, api_key, run_vars,
                   classify_vars, aside_vars>>

\* variant: a 429 answer is followed by a second request
HandleResponseRetry ==
    /\ k_pc = "response"
    /\ IF http_response.outcome = "429" /\ requests_sent < 2
       THEN /\ k_pc' = "request"
            /\ UNCHANGED <<k_returned, k_raised, ui_messages, calls_made>>
       ELSE /\ k_pc' = "returned"
            /\ k_returned' = Some(ReturnedItems(http_response))
            /\ k_raised' = (http_response.outcome \in Exceptions
                            /\ ~Caught(k_op, http_response.outcome))
            /\ ui_messages' = ui_messages \o Messages(k_op, http_response)
            /\ calls_made' = calls_made + 1
    /\ UNCHANGED <<k_op, requests_sent, http_response, api_key, run_vars, classify_vars, aside_vars>>

\* the status tests and the except branch, then return
HandleResponse ==
    /\ k_pc = "response"
    /\ k_pc' = "returned"
    /\ k_returned' = Some(ReturnedItems(http_response))
    /\ k_raised' = (http_response.outcome \in Exceptions
                    /\ ~Caught(k_op, http_response.outcome))
    /\ ui_messages' = ui_messages \o Messages(k_op, http_response)
    /\ calls_made' = calls_made + 1
    /\ UNCHANGED <<k_op, requests_sent, http_response, api_key, run_vars, classify_vars, aside_vars>>

NextClient ==
    \/ Invoke
    \/ SearchKeyCheck
    \/ SendRequest
    \/ HandleResponse

SpecClient == InitClient /\ [][NextClient]_vars

-----------------------------------------------------------------------------
(* Properties of the Registry Client.                                      *)

\* the invocation under way has returned to its caller
ClientReturned == k_pc = "returned"

\* ... after a request that was answered
AnsweredAndReturned == ClientReturned /\ requests_sent > 0

\* the request did not succeed: a status other than 200, a timeout, or no
\* connection
FailedOutcomes == (StatusCodes \ {"200"}) \cup {"timeout", "connection_error"}

\* what the caller and the UI observe of an invocation answered by response
Signal(op, response) ==
    [returned |-> ReturnedItems(response), messages |-> Messages(op, response)]

\* C16: whichever of the three operations is called, when the answer has a
\* status other than 200 or the request times out or cannot connect, the
\* operation returns the empty list and no exception reaches the caller; a
\* timeout returns what every other failed call returns.
C16_FailureReturnsEmpty ==
    (AnsweredAndReturned /\ http_response.outcome \in FailedOutcomes)
        => /\ k_returned = Some(<<>>)
           /\ ~k_raised
           /\ \A r \in Responses :
                r.outcome \in FailedOutcomes
                    => ReturnedItems(r) = ReturnedItems([outcome |-> "timeout",
                                                         items |-> <<>>,
                                                         more_pages |-> FALSE])

C16_Witness ==
    /\ AnsweredAndReturned
    /\ k_op = "get_officer_appointments"
    /\ http_response.outcome = "500"
    /\ http_response.items # <<>>
    /\ k_returned = Some(<<>>)

\* C17 (as claimed): for each of the three operations, a 429 answer shows a
\* rate-limit warning, and what the operation signals (returned list and
\* messages) differs from what it signals for every other failed answer.
C17_Original ==
    (AnsweredAndReturned /\ http_response.outcome = "429")
        => /\ \E m \in 1..Len(ui_messages) : ui_messages[m].kind = "warning"
           /\ \A r \in Responses :
                r.outcome \in FailedOutcomes \ {"429"}
                    => Signal(k_op, r) # Signal(k_op, http_response)

\* C18: an invocation never issues more than one request, whatever the
\* answer: a 429, another error, a timeout, or a page that says more pages
\* exist; once it has returned after a request exactly one was sent.
C18_AtMostOneRequest ==
    /\ requests_sent <= 1
    /\ AnsweredAndReturned => requests_sent = 1

C18_Witness ==
    /\ ClientReturned
    /\ requests_sent = 1
    /\ http_response.outcome = "200"
    /\ http_response.more_pages
    /\ calls_made = MaxCalls

\* C19 (as claimed): without a configured key each of the three operations
\* returns after an error message about the missing key and sends nothing.
C19_Original ==
    (ClientReturned /\ ~api_key)
        => /\ requests_sent = 0
           /\ \E m \in 1..Len(ui_messages) : ui_messages[m] = MsgNotConfigured

-----------------------------------------------------------------------------
(* The script of app.py from its first line: Streamlit runs it top to      *)
(* bottom; the API key check (lines 371-383) comes before the search,      *)
(* select and map sections.                                                *)

MsgKeyNotFound == [kind |-> "error", text |-> "Companies House API key not found!"]

\* a run of the script begins; the secret may or may not be configured
InitScript ==
    /\ pc = "script_start"
    /\ api_key \in BOOLEAN
    /\ InitRun
    /\ ClassifierIdle
    /\ ClientIdle
    /\ AsideIdle

\* variant: the error is shown but the script goes on
KeyCheckNoStop ==
    /\ pc = "script_start"
    /\ pc' = "idle"
    /\ ui_messages' = IF api_key THEN ui_messages ELSE Append(ui_messages, MsgKeyNotFound)
    /\ UNCHANGED <<company_number, officers, i, officer_id, officer_info, appointments, j,
                   officer_data, connected_companies, http_outcome, fetch_log, progress_log,
                   result, session_state, warnings, sorted_conn, sorted_companies>>
    /\ UNCHANGED <<api_key, classify_vars, aside_vars>>
    /\ UNCHANGED <<k_pc, k_op, requests_sent, http_response, k_returned, k_raised,
                   calls_made>>

\* if not get_ch_api_key(): st.error(...); st.markdown(...); st.stop()
KeyCheck ==
    /\ pc = "script_start"
    /\ IF api_key
       THEN /\ pc' = "idle"
            /\ UNCHANGED ui_messages
       ELSE /\ pc' = "stopped"
            /\ ui_messages' = Append(ui_messages, MsgKeyNotFound)
    /\ UNCHANGED <<company_number, officers, i, officer_id, officer_info, appointments, j,
                   officer_data, connected_companies, http_outcome, fetch_log, progress_log,
                   result, session_state, warnings, sorted_conn, sorted_companies>>
    /\ UNCHANGED <<api_key, classify_vars, aside_vars>>
    /\ UNCHANGED <<k_pc, k_op, requests_sent, http_response, k_returned, k_raised,
                   calls_made>>

\* after st.stop() the page is loaded again, the secret added or still
\* missing: the script starts from its first line and the page is redrawn
Rerun ==
    /\ pc = "stopped"
    /\ pc' = "script_start"
    /\ api_key' \in BOOLEAN
    /\ ui_messages' = <<>>
    /\ UNCHANGED <<company_number, officers, i, officer_id, officer_info, appointments, j,
                   officer_data, connected_companies, http_outcome, fetch_log, progress_log,
                   result, session_state, warnings, sorted_conn, sorted_companies>>
    /\ UNCHANGED <<classify_vars, aside_vars>>
    /\ UNCHANGED <<k_pc, k_op, requests_sent, http_response, k_returned, k_raised,
                   calls_made>>

NextScript ==
    \/ KeyCheck
    \/ Rerun
    \/ MapNetworkClicked
    \/ GetCompanyOfficers
    \/ ProgressCallback
    \/ ReadOfficer
    \/ GetOfficerAppointments
    \/ Sleep
    \/ ProcessAppointment
    \/ AppendOfficer
    \/ Return
    \/ StoreResults
    \/ ResultsSection
    \/ NoResults

SpecScript == InitScript /\ [][NextScript]_vars

\* the script has not got past the key check
BeforeSections == pc \in {"script_start", "stopped"}

\* C20: while the key is absent the script never gets past the key check:
\* once it has halted the configuration error is on the page, no mapping
\* run has started (the Map Network handler, which creates the progress
\* bar, has not run), no request of a run was made and no progress callback
\* has fired.
C20_NoRunWithoutKey ==
    ~api_key
        => /\ BeforeSections
           /\ pc = "stopped" => ui_messages = <<MsgKeyNotFound>>
           /\ progress_log = <<>>
           /\ fetch_log = <<>>
           /\ company_number = ""

C20_Witness ==
    /\ ~api_key
    /\ pc = "stopped"
    /\ ui_messages = <<MsgKeyNotFound>>

-----------------------------------------------------------------------------
(* Properties of a mapping run inside the script.                          *)

\* the newest progress report
LastReport == progress_log[Len(progress_log)]

FetchOrder ==
    /\ pc \in {"script_start", "stopped", "idle", "get_officers"} =>
           (fetch_log = <<>> /\ http_outcome = "none")
    /\ \A m, n \in 1..Len(fetch_log) :
           m < n => fetch_log[m].officer < fetch_log[n].officer
    /\ \A m \in 1..Len(fetch_log) :
           /\ fetch_log[m].officer \in 1..Len(officers)
           /\ fetch_log[m].officer <= i
           /\ ~NoUsableLink(officers[fetch_log[m].officer])
           /\ fetch_log[m].officer <= Len(officer_data) =>
                  officer_data[fetch_log[m].officer].officer_id
                      = Some(fetch_log[m].officer_id)
    /\ \A k \in 1..Len(officers) :
           (k < i /\ ~NoUsableLink(officers[k])) =>
               \E m \in 1..Len(fetch_log) : fetch_log[m].officer = k

\* after an appointments request the delay comes next, and the delay issues
\* no request
DelayAfterFetch ==
    /\ fetch_log' # fetch_log =>
           /\ pc = "get_appointments"
           /\ pc' = "sleep"
           /\ Len(fetch_log') = Len(fetch_log) + 1
    /\ http_outcome' # http_outcome => pc \in {"get_officers", "get_appointments"}
    /\ pc = "sleep" =>
           /\ fetch_log' = fetch_log
           /\ pc' \in {"appointment", "append"}

\* C22: the officers request comes first; then each officer with an id gets
\* exactly one appointments request, in the order of the officers list; each
\* request is a blocking call followed by the delay before anything else,
\* and only these two steps of the single thread issue requests.
C22_SequentialFetches ==
    /\ []FetchOrder
    /\ [][DelayAfterFetch]_vars

C22_Witness ==
    /\ pc = "sleep"
    /\ Len(fetch_log) = 2
    /\ fetch_log[1].officer = 1
    /\ fetch_log[2].officer = 3
    /\ NoUsableLink(officers[2])

\* C23: a step of the run never removes a key of the connections map, never
\* moves it, and never shortens or rewrites its shared_officers list.
C23_OnlyGrows ==
    [][\A k \in 1..Len(connected_companies) :
          /\ k <= Len(connected_companies')
          /\ connected_companies'[k].key = connected_companies[k].key
          /\ Len(connected_companies'[k].shared_officers)
                 >= Len(connected_companies[k].shared_officers)
          /\ SubSeq(connected_companies'[k].shared_officers, 1,
                    Len(connected_companies[k].shared_officers))
                 = connected_companies[k].shared_officers]_vars

C23_Witness ==
    /\ Len(connected_companies) = 2
    /\ Len(connected_companies[1].shared_officers) = 2
    /\ Len(connected_companies[2].shared_officers) = 1

\* C24: the results section and create_excel leave the stored result and the
\* structures the run returned as they are.
C24_ResultsOnlyRead ==
    [][pc = "results" =>
          /\ session_state' = session_state
          /\ result' = result
          /\ officer_data' = officer_data
          /\ connected_companies' = connected_companies]_vars

C24_Witness ==
    /\ pc = "done"
    /\ ~session_state.mapping_results.none
    /\ sorted_conn # session_state.mapping_results.val.connected
    /\ sorted_companies = sorted_conn
    /\ session_state.mapping_results.val.connected = result.connected.val
    /\ session_state.mapping_results.val.officers = officer_data

\* appointments of officer k without a company number, as fetched
NumberlessFetched(k) ==
    LET pairs == FetchedPairs(fetch_log)
    IN  { m \in 1..Len(pairs) :
            pairs[m].officer = k /\ ApptCompanyNumber(pairs[m].appt) = "" }

\* entries of officer k's other_companies without a company number
NumberlessListed(k) ==
    { m \in 1..Len(officer_data[k].other_companies) :
        officer_data[k].other_companies[m].company_number = "" }

WellFormedEntries(conn) ==
    /\ \A k \in 1..Len(conn) :
           /\ conn[k].key # ""
           /\ ~conn[k].company.none
           /\ conn[k].company.val.number = conn[k].key
           /\ Len(conn[k].shared_officers) >= 1
    /\ \A k, l \in 1..Len(conn) : conn[k].key = conn[l].key => k = l

-----------------------------------------------------------------------------
(* Two invocations of map_corporate_network in one process (two sessions   *)
(* of the app, or one run after another), with the objects they build kept *)
(* by reference.  A pass of the officers loop is one step here: it builds  *)
(* the officer's entry from one appointment and appends it.                *)

MaxRunSteps == 2

\* company_number arguments
RunSeeds == {SeedNumber, "0000000A"}

\* the officer record of a loop pass
RunOfficer ==
    [name |-> "Jane Doe", officer_role |-> "director", appointed_on |-> "2019-01-01",
     links |-> OfficerLinks(LinkAB)]

\* the appointment of a loop pass
RunAppointments ==
    { appt \in AppointmentRecords :
        ApptCompanyName(appt) \in {"Seed plc", "Alpha Ltd", "Beta Ltd"} }

\* variant: the two structures are module-level objects created once
NewObjectShared(h, slot) == slot

\* "officer_data = []" and "connected_companies = defaultdict(...)" create a
\* new object at each execution: a reference no other object has
NewObject(h, slot) == Len(h) + slot

\* the heap with every reference up to n bound, new objects being empty
Allocated(h, n) ==
    [k \in 1..(IF n > Len(h) THEN n ELSE Len(h)) |-> IF k <= Len(h) THEN h[k] ELSE <<>>]

\* the officer_info dict of the pass before the appointments are read
RunOfficerInfo == OfficerInfo(RunOfficer)

\* the entry a loop pass builds for the officer from one appointment
PassInfo(seed, appt) ==
    [RunOfficerInfo EXCEPT
        !.other_companies =
            IF IsSourceCompany(ApptCompanyNumber(appt), seed) THEN <<>>
            ELSE <<OtherCompany(appt)>>]

\* the connections map after a loop pass
PassConnected(conn, seed, appt) ==
    IF IsSourceCompany(ApptCompanyNumber(appt), seed) THEN conn
    ELSE TrackConnected(conn, appt, RunOfficerInfo)

InitInvocations ==
    /\ heap = <<>>
    /\ r_pc = [r \in Runs |-> "ready"]
    /\ r_seed = [r \in Runs |-> ""]
    /\ r_officer_data = [r \in Runs |-> 0]
    /\ r_connected = [r \in Runs |-> 0]
    /\ r_steps = [r \in Runs |-> <<>>]
    /\ r_result = [r \in Runs |-> None]
    /\ r_snapshot = [r \in Runs |-> None]
    /\ pc = "idle"
    /\ InitRun
    /\ api_key = TRUE
    /\ ClassifierIdle
    /\ ClientIdle
    /\ SessionIdle
    /\ MapperIdle
    /\ EnhancedIdle

\* the call, Step 1 and the creation of the two structures
InvocationStart(r) ==
    /\ r_pc[r] = "ready"
    /\ \E seed \in RunSeeds, has_officers \in BOOLEAN :
        /\ r_seed' = [r_seed EXCEPT ![r] = seed]
        /\ IF has_officers
           THEN /\ r_officer_data' = [r_officer_data EXCEPT ![r] = NewObject(heap, 1)]
                /\ r_connected' = [r_connected EXCEPT ![r] = NewObject(heap, 2)]
                /\ heap' = Allocated(heap, r_connected'[r])
                /\ r_pc' = [r_pc EXCEPT ![r] = "loop"]
                /\ UNCHANGED r_result
           ELSE /\ r_result' = [r_result EXCEPT ![r] = Some(NoDataResult)]
                /\ r_pc' = [r_pc EXCEPT ![r] = "returned"]
                /\ UNCHANGED <<heap, r_officer_data, r_connected>>
    /\ UNCHANGED <<r_steps, r_snapshot>>
    /\ UNCHANGED <<run_vars, api_key, classify_vars, client_vars, session_vars, mapper_vars,
                   enhanced_vars>>

\* one pass of the officers loop: the appends go to the objects the locals
\* refer to
InvocationPass(r) ==
    /\ r_pc[r] = "loop"
    /\ Len(r_steps[r]) < MaxRunSteps
    /\ \E appt \in RunAppointments :
        /\ heap' = [heap EXCEPT
                      ![r_connected[r]] = PassConnected(@, r_seed[r], appt),
                      ![r_officer_data[r]] = Append(@, PassInfo(r_seed[r], appt))]
        /\ r_steps' = [r_steps EXCEPT ![r] = Append(@, appt)]
    /\ UNCHANGED <<r_pc, r_seed, r_officer_data, r_connected, r_result, r_snapshot>>
    /\ UNCHANGED <<run_vars, api_key, classify_vars, client_vars, session_vars, mapper_vars,
                   enhanced_vars>>

\* return officer_data, dict(connected_companies): dict() is a new object
InvocationReturn(r) ==
    /\ r_pc[r] = "loop"
    /\ r_steps[r] # <<>>
    /\ heap' = Append(heap, heap[r_connected[r]])
    /\ r_result' = [r_result EXCEPT
                      ![r] = Some([officers |-> Some(r_officer_data[r]),
                                   connected |-> Some(Len(heap) + 1)])]
    /\ r_snapshot' = [r_snapshot EXCEPT
                        ![r] = Some([officers |-> heap[r_officer_data[r]],
                                     connected |-> heap[r_connected[r]]])]
    /\ r_pc' = [r_pc EXCEPT ![r] = "returned"]
    /\ UNCHANGED <<r_seed, r_officer_data, r_connected, r_steps>>
    /\ UNCHANGED <<run_vars, api_key, classify_vars, client_vars, session_vars, mapper_vars,
                   enhanced_vars>>

NextInvocations ==
    \/ \E r \in Runs : InvocationStart(r)
    \/ \E r \in Runs : InvocationPass(r)
    \/ \E r \in Runs : InvocationReturn(r)

SpecInvocations == InitInvocations /\ [][NextInvocations]_vars

\* the invocation returned a network
ReturnedStructures(r) == r_pc[r] = "returned" /\ ~r_result[r].val.officers.none

\* the references an invocation holds or has returned
RefsOf(r) ==
    ({r_officer_data[r], r_connected[r]} \ {0})
    \cup (IF ReturnedStructures(r)
          THEN {r_result[r].val.officers.val, r_result[r].val.connected.val}
          ELSE {})

\* what the passes of an invocation build from its seed and its own answers
RECURSIVE BuiltFrom(_, _)
BuiltFrom(seed, steps) ==
    IF steps = <<>> THEN [officers |-> <<>>, connected |-> <<>>]
    ELSE LET before == BuiltFrom(seed, SubSeq(steps, 1, Len(steps) - 1))
             appt == steps[Len(steps)]
         IN  [officers |-> Append(before.officers, PassInfo(seed, appt)),
              connected |-> PassConnected(before.connected, seed, appt)]

\* C25: the two invocations hold and return disjoint objects; what an
\* invocation builds and returns is determined by its seed and its own
\* answers; and the structures an invocation returned stay as they were at
\* its return whatever the other invocation does afterwards.
C25_RunsIndependent ==
    /\ \A r, q \in Runs : r # q => RefsOf(r) \cap RefsOf(q) = {}
    /\ \A r \in Runs :
           LET built == BuiltFrom(r_seed[r], r_steps[r])
           IN  /\ r_pc[r] = "loop" =>
                      /\ heap[r_officer_data[r]] = built.officers
                      /\ heap[r_connected[r]] = built.connected
               /\ ReturnedStructures(r) =>
                      /\ heap[r_result[r].val.officers.val] = r_snapshot[r].val.officers
                      /\ heap[r_result[r].val.connected.val] = r_snapshot[r].val.connected
                      /\ r_snapshot[r].val = built

\* C25 witness: the second invocation started while the first was under way
\* and went on after the first had returned; both returned networks, and
\* they differ
C25_Witness ==
    /\ ReturnedStructures("first")
    /\ ReturnedStructures("second")
    /\ r_officer_data["first"] < r_officer_data["second"]
    /\ r_officer_data["second"] < r_result["first"].val.connected.val
    /\ r_seed["first"] = r_seed["second"]
    /\ r_snapshot["first"].val.connected # <<>>
    /\ r_snapshot["second"].val.connected # <<>>
    /\ r_snapshot["first"] # r_snapshot["second"]

-----------------------------------------------------------------------------
(* The session of app.py over several presses of its two buttons.  Each    *)
(* press reruns the script: the handler of the pressed button, then the    *)
(* results section.  The API key is configured.                            *)

MaxClicks == 4

CompanySeed == [title |-> "Seed plc", company_number |-> SeedNumber]
CompanyAlpha == [title |-> "Alpha Ltd", company_number |-> "0000000A"]

\* what search_companies may return for a search term
SearchAnswers == {<<>>, <<CompanySeed>>, <<CompanySeed, CompanyAlpha>>}

\* st.text_input("Company name:")
SearchTerms == {"", "acme"}

\* what map_corporate_network may return for a seed: no data, or the officer
\* list and connections map built from an officer's appointment
RunReturns(seed) ==
    {NoDataResult}
    \cup { [officers |-> Some(BuiltFrom(seed, <<appt>>).officers),
            connected |-> Some(BuiltFrom(seed, <<appt>>).connected)] :
           appt \in RunAppointments }

\* "if 'mapping_results' in st.session_state and st.session_state['mapping_results']":
\* the company whose result the results section shows
ShownSource(mapping_results) ==
    IF mapping_results.none THEN None ELSE Some(mapping_results.val.source)

InitSession ==
    /\ s_search_results = None
    /\ s_mapping_results = None
    /\ s_last = NoHandler
    /\ s_shown = None
    /\ s_warnings = <<>>
    /\ s_clicks = 0
    /\ pc = "idle"
    /\ InitRun
    /\ api_key = TRUE
    /\ ClassifierIdle
    /\ ClientIdle
    /\ InvocationsIdle
    /\ MapperIdle
    /\ EnhancedIdle

\* variant: a new search forgets the stored mapping result
SearchClickedForgets ==
    /\ s_clicks < MaxClicks
    /\ \E search_term \in SearchTerms, results \in SearchAnswers :
        /\ IF search_term # ""
           THEN IF results # <<>>
                THEN /\ s_search_results' = Some(results)
                     /\ s_warnings' = <<>>
                ELSE /\ s_search_results' = None
                     /\ s_warnings' = <<"No companies found.">>
           ELSE /\ s_warnings' = <<"Enter a company name">>
                /\ UNCHANGED s_search_results
        /\ s_last' = [handler |-> "search", seed |-> "", result |-> NoDataResult]
    /\ s_mapping_results' = None
    /\ s_shown' = ShownSource(s_mapping_results')
    /\ s_clicks' = s_clicks + 1
    /\ UNCHANGED <<run_vars, api_key, classify_vars, client_vars, invocation_vars, mapper_vars,
                   enhanced_vars>>

\* the Search button: the search results are stored or deleted; then the
\* rest of the script, which shows the stored mapping result
SearchClicked ==
    /\ s_clicks < MaxClicks
    /\ \E search_term \in SearchTerms, results \in SearchAnswers :
        /\ IF search_term # ""
           THEN IF results # <<>>
                THEN /\ s_search_results' = Some(results)
                     /\ s_warnings' = <<>>
                ELSE /\ s_search_results' = None
                     /\ s_warnings' = <<"No companies found.">>
           ELSE /\ s_warnings' = <<"Enter a company name">>
                /\ UNCHANGED s_search_results
        /\ s_last' = [handler |-> "search", seed |-> "", result |-> NoDataResult]
    /\ UNCHANGED s_mapping_results
    /\ s_shown' = ShownSource(s_mapping_results')
    /\ s_clicks' = s_clicks + 1
    /\ UNCHANGED <<run_vars, api_key, classify_vars, client_vars, invocation_vars, mapper_vars,
                   enhanced_vars>>

\* the Map Network button, shown when search results are stored: the run for
\* the selected company, "if officers and connected:" store, else warn;
\* then the results section
MapNetworkHandler ==
    /\ s_clicks < MaxClicks
    /\ Truthy(s_search_results)
    /\ \E selected_idx \in 1..Len(s_search_results.val) :
        LET selected == s_search_results.val[selected_idx]
            seed == Get(selected, "company_number", "")
        IN  \E returned \in RunReturns(seed) :
                /\ IF Truthy(returned.officers) /\ Truthy(returned.connected)
                   THEN /\ s_mapping_results' =
                             Some([source |-> [name |-> Get(selected, "title", ""),
                                               number |-> seed],
                                   officers |-> returned.officers.val,
                                   connected |-> returned.connected.val])
                        /\ s_warnings' = <<>>
                   ELSE /\ s_warnings' = <<"No officers found for this company.">>
                        /\ UNCHANGED s_mapping_results
                /\ s_last' = [handler |-> "map", seed |-> seed, result |-> returned]
    /\ s_shown' = ShownSource(s_mapping_results')
    /\ s_clicks' = s_clicks + 1
    /\ UNCHANGED s_search_results
    /\ UNCHANGED <<run_vars, api_key, classify_vars, client_vars, invocation_vars, mapper_vars,
                   enhanced_vars>>

NextSession ==
    \/ SearchClicked
    \/ MapNetworkHandler

SpecSession == InitSession /\ [][NextSession]_vars

\* the run of the handler that ran last returned officers and connections
LastRunStored(last) ==
    /\ last.handler = "map"
    /\ Truthy(last.result.officers)
    /\ Truthy(last.result.connected)

\* C27: the stored mapping result changes only in a Map Network press whose
\* run returned a non-empty officer list and a non-empty connections map,
\* and then it is that run's result; every other press (a search, a run
\* without officers or without connections) leaves it as it was, and the
\* results section goes on showing it.
C27_StoredOnlyBySuccessfulRun ==
    [][/\ s_mapping_results' # s_mapping_results =>
              /\ LastRunStored(s_last')
              /\ s_mapping_results'.val.source.number = s_last'.seed
              /\ s_mapping_results'.val.officers = s_last'.result.officers.val
              /\ s_mapping_results'.val.connected = s_last'.result.connected.val
       /\ (s_clicks' # s_clicks /\ ~LastRunStored(s_last')) =>
              /\ s_mapping_results' = s_mapping_results
              /\ s_shown' = ShownSource(s_mapping_results)]_vars

\* C27 witness: a result is stored for the seed company; the last press was
\* a run for the other company that found an officer but no connection; the
\* seed company's result is still stored and shown
C27_Witness ==
    /\ ~s_mapping_results.none
    /\ s_mapping_results.val.source.number = SeedNumber
    /\ s_last.handler = "map"
    /\ s_last.seed = "0000000A"
    /\ Truthy(s_last.result.officers)
    /\ ~Truthy(s_last.result.connected)
    /\ s_shown = Some(s_mapping_results.val.source)
    /\ s_warnings = <<"No officers found for this company.">>

-----------------------------------------------------------------------------
(* subsidiary_mapper.py: the session state, the callbacks do_search and    *)
(* do_mapping, and the script body that follows every callback.            *)

MaxPresses == 3

\* "for term in search_terms[:3]"
SearchTermLimit == 3

\* the suffixes of the eight search terms built from the company name
SearchSuffixes == <<"", " Ltd", " Limited", " Inc", " GmbH", " BV", " SA", " SAS">>

MapperAcme ==
    [name |-> NameAcmeHoldingsLimited, jurisdiction_code |-> "gb", company_number |-> "1"]
MapperAcmeEurope ==
    [name |-> NameAcmeEurope, jurisdiction_code |-> "gb", company_number |-> "2"]
MapperBeta ==
    [name |-> NameBetaHoldings, jurisdiction_code |-> "us_de", company_number |-> "1"]
MapperNoNumber ==
    [name |-> NameAcmeTrustees]

\* st.session_state.search_input
MapperQueries == {"", "acme", "beta"}

\* what search_opencorporates may return to do_search; an entry of the
\* answer without a 'company' key gives {}
MapperSearchAnswers ==
    {<<>>, <<MapperAcme, MapperAcmeEurope>>, <<MapperBeta, EmptyDict>>}

\* what search_opencorporates may return to one search of
\* search_subsidiaries_opencorporates
SubsidiaryAnswers ==
    {<<>>, <<MapperAcme>>, <<MapperAcmeEurope, MapperAcme>>,
     <<MapperNoNumber, MapperNoNumber>>}

\* f"{company.get('jurisdiction_code', '')}/{company.get('company_number', '')}"
CompanyId(company) ==
    Get(company, "jurisdiction_code", "") \o "/" \o Get(company, "company_number", "")

\* variant: every company of every answer is kept
RECURSIVE AddUnseenKeepAll(_, _)
AddUnseenKeepAll(acc, results) ==
    IF results = <<>> THEN acc
    ELSE AddUnseenKeepAll(
             [subsidiaries |-> Append(acc.subsidiaries, Head(results)),
              seen_companies |-> acc.seen_companies \cup {CompanyId(Head(results))}],
             Tail(results))

\* "for company in results": a company whose id was not seen is appended
RECURSIVE AddUnseen(_, _)
AddUnseen(acc, results) ==
    IF results = <<>> THEN acc
    ELSE AddUnseen(
             IF CompanyId(Head(results)) \notin acc.seen_companies
             THEN [subsidiaries |-> Append(acc.subsidiaries, Head(results)),
                   seen_companies |-> acc.seen_companies \cup {CompanyId(Head(results))}]
             ELSE acc,
             Tail(results))

\* "for term in search_terms[:3]": answers[k] is what the k-th search returns
RECURSIVE SearchLoop(_, _, _, _)
SearchLoop(acc, terms, answers, k) ==
    IF k > Len(terms) THEN acc
    ELSE SearchLoop(AddUnseen(acc, answers[k]), terms, answers, k + 1)

\* search_subsidiaries_opencorporates: the list returned and the number of
\* searches issued
search_subsidiaries_opencorporates(answers) ==
    LET terms == Take(SearchSuffixes, SearchTermLimit)
        acc == SearchLoop([subsidiaries |-> <<>>, seen_companies |-> {}], terms, answers, 1)
    IN  [subsidiaries |-> acc.subsidiaries, searches |-> Len(terms)]

\* the ids of a list of entities
EntityIds(ents) == [k \in 1..Len(ents) |-> CompanyId(ents[k])]

\* "if parent_id not in entity_ids: entities.insert(0, company)"
WithParent(ents, company) ==
    IF \E k \in 1..Len(ents) : EntityIds(ents)[k] = CompanyId(company)
    THEN ents
    ELSE <<company>> \o ents

\* the companies the answers hold
MapperCompanies == {MapperAcme, MapperAcmeEurope, MapperBeta, MapperNoNumber, EmptyDict}

\* the list categorize_entities appends a company to, for each company and
\* each selected company's name
BucketOf ==
    [entity \in MapperCompanies |->
        [parent \in { Get(c, "name", <<>>) : c \in MapperCompanies } |->
            LET cats == CategorizeEntity(EmptyCategories, entity, parent)
            IN  CHOOSE b \in DOMAIN cats : cats[b] # <<>>]]

\* categorize_entities(entities, company_name)
RECURSIVE CategorizeAll(_, _, _)
CategorizeAll(cats, ents, parent) ==
    IF ents = <<>> THEN cats
    ELSE CategorizeAll([cats EXCEPT ![BucketOf[Head(ents)][parent]] = Append(@, Head(ents))],
                       Tail(ents), parent)

\* truth value of an optional dict: None and {} are false
TruthyDict(x) == ~x.none /\ x.val # EmptyDict

\* the first script run: every session key is initialised
InitMapper ==
    /\ m_pc = "shown"
    /\ m_search_results = None
    /\ m_selected_company = None
    /\ m_mapping_results = None
    /\ m_search_query = ""
    /\ m_selector = 0
    /\ m_last = NoCallback
    /\ m_presses = 0
    /\ pc = "idle"
    /\ InitRun
    /\ api_key = TRUE
    /\ ClassifierIdle
    /\ ClientIdle
    /\ InvocationsIdle
    /\ SessionIdle
    /\ EnhancedIdle

\* variant: a new search keeps the stored mapping result
DoSearchKeepsMapping ==
    /\ m_pc = "shown"
    /\ m_presses < MaxPresses
    /\ \E query \in MapperQueries, results \in MapperSearchAnswers :
        /\ IF query # ""
           THEN /\ m_search_query' = query
                /\ m_search_results' = Some(results)
                /\ m_selected_company' = None
                /\ m_selector' = 0
           ELSE UNCHANGED <<m_search_query, m_search_results, m_selected_company,
                            m_selector>>
        /\ m_last' = [NoCallback EXCEPT !.callback = "do_search", !.query = query]
    /\ UNCHANGED m_mapping_results
    /\ m_pc' = "rerun"
    /\ m_presses' = m_presses + 1
    /\ UNCHANGED <<run_vars, api_key, classify_vars, client_vars, invocation_vars,
                   session_vars, enhanced_vars>>

\* the Search button: do_search; new results give the selectbox new options
DoSearch ==
    /\ m_pc = "shown"
    /\ m_presses < MaxPresses
    /\ \E query \in MapperQueries, results \in MapperSearchAnswers :
        /\ IF query # ""
           THEN /\ m_search_query' = query
                /\ m_search_results' = Some(results)
                /\ m_selected_company' = None
                /\ m_mapping_results' = None
                /\ m_selector' = 0
           ELSE UNCHANGED <<m_search_query, m_search_results, m_selected_company,
                            m_mapping_results, m_selector>>
        /\ m_last' = [NoCallback EXCEPT !.callback = "do_search", !.query = query]
    /\ m_pc' = "rerun"
    /\ m_presses' = m_presses + 1
    /\ UNCHANGED <<run_vars, api_key, classify_vars, client_vars, invocation_vars,
                   session_vars, enhanced_vars>>

\* the "Map Subsidiaries" button is on the page
MapButtonShown == Truthy(m_search_results)

\* the Map Subsidiaries button: do_mapping
DoMapping ==
    /\ m_pc = "shown"
    /\ MapButtonShown
    /\ m_presses < MaxPresses
    /\ IF TruthyDict(m_selected_company)
       THEN \E answers \in [1..SearchTermLimit -> SubsidiaryAnswers] :
              LET company == m_selected_company.val
                  company_name == Get(company, "name", <<>>)
                  searched == search_subsidiaries_opencorporates(answers)
                  ents == WithParent(searched.subsidiaries, company)
              IN  /\ m_mapping_results' =
                        Some([company_name |-> company_name,
                              entities |-> ents,
                              categories |-> CategorizeAll(EmptyCategories, ents,
                                                           company_name)])
                  /\ m_last' = [callback |-> "do_mapping", query |-> "",
                                company |-> Some(company), answers |-> answers,
                                found |-> searched.subsidiaries,
                                searches |-> searched.searches]
       ELSE /\ UNCHANGED m_mapping_results
            /\ m_last' = [NoCallback EXCEPT !.callback = "do_mapping"]
    /\ m_pc' = "rerun"
    /\ m_presses' = m_presses + 1
    /\ UNCHANGED <<m_search_results, m_selected_company, m_search_query, m_selector>>
    /\ UNCHANGED <<run_vars, api_key, classify_vars, client_vars, invocation_vars,
                   session_vars, enhanced_vars>>

\* the user picks another option of the selectbox
SelectCompany ==
    /\ m_pc = "shown"
    /\ Truthy(m_search_results)
    /\ m_presses < MaxPresses
    /\ \E idx \in 1..Len(m_search_results.val) :
        /\ idx # m_selector
        /\ m_selector' = idx
    /\ m_last' = NoCallback
    /\ m_pc' = "rerun"
    /\ m_presses' = m_presses + 1
    /\ UNCHANGED <<m_search_results, m_selected_company, m_mapping_results, m_search_query>>
    /\ UNCHANGED <<run_vars, api_key, classify_vars, client_vars, invocation_vars,
                   session_vars, enhanced_vars>>

\* the script body after a callback: with results on the page the selectbox
\* gives an index of the current results and selected_company is set to
\* that result
ScriptRun ==
    /\ m_pc = "rerun"
    /\ IF Truthy(m_search_results)
       THEN \E selected_idx \in 1..Len(m_search_results.val) :
              /\ m_selector \in 1..Len(m_search_results.val) => selected_idx = m_selector
              /\ m_selector' = selected_idx
              /\ m_selected_company' = Some(m_search_results.val[selected_idx])
       ELSE UNCHANGED <<m_selector, m_selected_company>>
    /\ m_pc' = "shown"
    /\ UNCHANGED <<m_search_results, m_mapping_results, m_search_query, m_last, m_presses>>
    /\ UNCHANGED <<run_vars, api_key, classify_vars, client_vars, invocation_vars,
                   session_vars, enhanced_vars>>

NextMapper ==
    \/ DoSearch
    \/ DoMapping
    \/ SelectCompany
    \/ ScriptRun

SpecMapper == InitMapper /\ [][NextMapper]_vars

-----------------------------------------------------------------------------
(* Properties of subsidiary_mapper.py.                                     *)

\* the elements of a list
Elements(seq) == { seq[k] : k \in 1..Len(seq) }

\* a stored mapping result is the one of a company of the stored search
\* results
MappingOfCurrentSearch ==
    ~m_mapping_results.none =>
        /\ Truthy(m_search_results)
        /\ m_last.callback \in {"do_mapping", "none"} \/ m_last.query = ""
        /\ \E company \in Elements(m_search_results.val) :
               /\ company # EmptyDict
               /\ m_mapping_results.val.company_name = Get(company, "name", <<>>)
               /\ \E e \in Elements(m_mapping_results.val.entities) :
                      CompanyId(e) = CompanyId(company)

\* what a callback does to the session
CallbackEffect ==
    m_presses' # m_presses =>
        /\ (m_last'.callback = "do_search" /\ m_last'.query = "") =>
               UNCHANGED <<m_search_results, m_selected_company, m_mapping_results,
                           m_search_query>>
        /\ (m_last'.callback = "do_search" /\ m_last'.query # "") =>
               /\ ~m_search_results'.none
               /\ m_selected_company' = None
               /\ m_mapping_results' = None
               /\ m_search_query' = m_last'.query
        /\ m_mapping_results' # m_mapping_results =>
               \/ m_last'.callback = "do_search" /\ m_last'.query # ""
               \/ /\ m_last'.callback = "do_mapping"
                  /\ TruthyDict(m_selected_company)
                  /\ m_selected_company.val \in Elements(m_search_results.val)
                  /\ m_last'.company = m_selected_company
                  /\ m_mapping_results'.val.company_name
                         = Get(m_selected_company.val, "name", <<>>)

\* C28: whatever do_search and do_mapping callbacks have run, a stored
\* mapping result belongs to a company of the stored search results;
\* do_search with a query stores the results and sets selected_company and
\* mapping_results to None, do_search without a query changes nothing, and
\* do_mapping writes the result of the selected company, which is one of
\* the stored search results.
C28_MappingBelongsToSearch ==
    /\ []MappingOfCurrentSearch
    /\ [][CallbackEffect]_vars

\* C28 witness: a result was mapped for the selected company of a search and
\* a search without a query followed
C28_Witness ==
    /\ m_pc = "rerun"
    /\ ~m_mapping_results.none
    /\ m_mapping_results.val.company_name = NameAcmeHoldingsLimited
    /\ m_selected_company = Some(MapperAcme)
    /\ m_last.callback = "do_search"
    /\ m_last.query = ""

\* position of the first company with the id in the answers laid end to end
FirstAt(all, id) == Min({ k \in 1..Len(all) : CompanyId(all[k]) = id })

\* the answers of the searches of the latest do_mapping, laid end to end
AllAnswers == m_last.answers[1] \o m_last.answers[2] \o m_last.answers[3]

\* C29: search_subsidiaries_opencorporates issues at most three searches;
\* the list it returns has no id twice, has every id the searches returned,
\* and holds for each id the first company with it, in the order of the
\* first occurrences; the entity list do_mapping stores has the selected
\* company's id exactly once, at index 0 when the searches did not return it.
C29_DistinctIdsAndParentOnce ==
    (m_last.callback = "do_mapping" /\ ~m_last.company.none) =>
        LET found == m_last.found
            ents == m_mapping_results.val.entities
            parent_id == CompanyId(m_last.company.val)
        IN  /\ m_last.searches <= SearchTermLimit
            /\ \A k, l \in 1..Len(found) :
                   CompanyId(found[k]) = CompanyId(found[l]) => k = l
            /\ \A c \in Elements(AllAnswers) :
                   \E k \in 1..Len(found) : CompanyId(found[k]) = CompanyId(c)
            /\ \A k \in 1..Len(found) :
                   found[k] = AllAnswers[FirstAt(AllAnswers, CompanyId(found[k]))]
            /\ \A k, l \in 1..Len(found) :
                   k < l => FirstAt(AllAnswers, CompanyId(found[k]))
                                < FirstAt(AllAnswers, CompanyId(found[l]))
            /\ Cardinality({ k \in 1..Len(ents) : CompanyId(ents[k]) = parent_id }) = 1
            /\ IF \E k \in 1..Len(found) : CompanyId(found[k]) = parent_id
               THEN ents = found
               ELSE ents = <<m_last.company.val>> \o found

\* C29 witness: the searches returned the same companies several times,
\* among them two without any id field, and did not return the selected
\* company
C29_Witness ==
    /\ m_last.callback = "do_mapping"
    /\ m_last.company = Some(MapperBeta)
    /\ Len(AllAnswers) = 5
    /\ m_last.found = <<MapperNoNumber, MapperAcmeEurope, MapperAcme>>
    /\ m_mapping_results.val.entities
           = <<MapperBeta, MapperNoNumber, MapperAcmeEurope, MapperAcme>>

-----------------------------------------------------------------------------
(* subsidiary_mapper_enhanced.py: the Map button of a search result,       *)
(* find_related_companies_by_officers and the de-duplication that follows. *)

MaxKeyOfficers == 2

\* "for officer in key_officers[:3]"
KeyOfficerLimit == 3

\* dict.get(key): None when the key is absent
OptGet(d, k) == IF k \in DOMAIN d THEN Some(d[k]) ELSE None

\* the search results that carry a Map button
EnhancedCompanies ==
    { [title |-> "Seed plc", company_number |-> SeedNumber, company_status |-> "active"],
      [title |-> "Alpha Ltd", company_number |-> "0000000A"],
      [title |-> "Unnumbered"] }

\* officers get_ch_officers may return
EnhancedOfficers ==
    { [name |-> "Jane Doe", officer_role |-> "director"],
      [name |-> "Holdco Ltd", officer_role |-> "corporate-director"],
      [name |-> "John Roe", officer_role |-> "secretary"],
      [officer_role |-> "director"] }

\* items search_by_officer_name may return: the officer search gives items
\* with or without a company_number
OfficerSearchItems ==
    { [title |-> "Seed plc", company_number |-> SeedNumber],
      [title |-> "Alpha Ltd", company_number |-> "0000000A", company_status |-> "active"],
      [title |-> "Jane DOE"] }

\* key_officers = [o for o in officers if o.get('officer_role') in [...]]
IsKeyOfficer(o) == OptGet(o, "officer_role") \in {Some("director"), Some("corporate-director")}

key_officers(all_officers) == Take(SelectSeq(all_officers, IsKeyOfficer), KeyOfficerLimit)

\* the level-1 record appended for an item
RelatedRecord(item, officer_name, root_name) ==
    [Level |-> 1,
     Parent_Company |-> root_name,
     Company_Name |-> Get(item, "title", "Unknown"),
     Company_Number |-> Some(Get(item, "company_number", "")),
     Status |-> Get(item, "company_status", "Unknown"),
     Connection_Type |-> "Shared officer: " \o officer_name]

\* the level-0 record of the handler
RootRecord(company) ==
    [Level |-> 0,
     Parent_Company |-> "ROOT",
     Company_Name |-> OptGet(company, "title"),
     Company_Number |-> OptGet(company, "company_number"),
     Status |-> Get(company, "company_status", "Unknown"),
     Connection_Type |-> "Root entity"]

\* variant: the company itself is not left out
NotTheCompanyAlways(item, root_number) == TRUE

\* "if item.get('company_number') != company_number"
NotTheCompany(item, root_number) == OptGet(item, "company_number") # root_number

\* "for item in officer_companies"
RECURSIVE AppendRelated(_, _, _, _, _)
AppendRelated(related, items, root_number, officer_name, root_name) ==
    IF items = <<>> THEN related
    ELSE AppendRelated(
             IF NotTheCompany(Head(items), root_number)
             THEN Append(related, RelatedRecord(Head(items), officer_name, root_name))
             ELSE related,
             Tail(items), root_number, officer_name, root_name)

\* "Remove duplicates": the first item of each Company Number is kept
RECURSIVE RemoveDuplicates(_, _, _)
RemoveDuplicates(unique_structure, seen, structure) ==
    IF structure = <<>> THEN unique_structure
    ELSE IF Head(structure).Company_Number \notin seen
         THEN RemoveDuplicates(Append(unique_structure, Head(structure)),
                               seen \cup {Head(structure).Company_Number},
                               Tail(structure))
         ELSE RemoveDuplicates(unique_structure, seen, Tail(structure))

\* the Map button of one search result is pressed
InitEnhanced ==
    /\ e_pc = "map_clicked"
    /\ e_company \in EnhancedCompanies
    /\ e_officers = <<>>
    /\ e_k = 0
    /\ e_related = <<>>
    /\ e_items = <<>>
    /\ e_structure = None
    /\ pc = "idle"
    /\ InitRun
    /\ api_key = TRUE
    /\ ClassifierIdle
    /\ ClientIdle
    /\ InvocationsIdle
    /\ SessionIdle
    /\ MapperIdle

\* officers = get_ch_officers(company_number); related = []; no officers
\* returns the empty list
GetChOfficers ==
    /\ e_pc = "map_clicked"
    /\ e_officers' \in SeqsUpTo(EnhancedOfficers, MaxKeyOfficers)
    /\ e_related' = <<>>
    /\ e_k' = 1
    /\ e_pc' = IF e_officers' = <<>> \/ key_officers(e_officers') = <<>>
               THEN "returned" ELSE "officer"
    /\ UNCHANGED <<e_company, e_items, e_structure>>
    /\ UNCHANGED <<run_vars, api_key, classify_vars, client_vars, invocation_vars,
                   session_vars, mapper_vars>>

\* one pass of "for officer in key_officers[:3]"
OfficerSearchPass ==
    /\ e_pc = "officer"
    /\ LET officer == key_officers(e_officers)[e_k]
           officer_name == Get(officer, "name", "")
       IN  IF officer_name = ""
           THEN UNCHANGED <<e_related, e_items>>
           ELSE \E officer_companies \in SeqsUpTo(OfficerSearchItems, 2) :
                  /\ e_related' = AppendRelated(e_related, officer_companies,
                                                OptGet(e_company, "company_number"),
                                                officer_name,
                                                OptGet(e_company, "title"))
                  /\ e_items' = e_items \o officer_companies
    /\ e_k' = e_k + 1
    /\ e_pc' = IF e_k = Len(key_officers(e_officers)) THEN "returned" ELSE "officer"
    /\ UNCHANGED <<e_company, e_officers, e_structure>>
    /\ UNCHANGED <<run_vars, api_key, classify_vars, client_vars, invocation_vars,
                   session_vars, mapper_vars>>

\* the handler after the call: "if related:" extend and remove duplicates,
\* else warn
BuildStructure ==
    /\ e_pc = "returned"
    /\ e_structure' = IF e_related # <<>>
                      THEN Some(RemoveDuplicates(<<>>, {},
                                                 <<RootRecord(e_company)>> \o e_related))
                      ELSE None
    /\ e_pc' = "done"
    /\ UNCHANGED <<e_company, e_officers, e_k, e_related, e_items>>
    /\ UNCHANGED <<run_vars, api_key, classify_vars, client_vars, invocation_vars,
                   session_vars, mapper_vars>>

NextEnhanced ==
    \/ GetChOfficers
    \/ OfficerSearchPass
    \/ BuildStructure

SpecEnhanced == InitEnhanced /\ [][NextEnhanced]_vars

\* the Company Numbers of a list of records
Numbers(records) == [k \in 1..Len(records) |-> records[k].Company_Number]

====
